---- MODULE Spec2Model ----
(***************************************************************************)
(* Model of the live-session client (GeminiLiveService) and of the part of *)
(* the UI controller (App) that drives it and listens to its callbacks.    *)
(*                                                                         *)
(* JavaScript runs one callback at a time, so every handler is one atomic  *)
(* step up to its next `await`; the code after an `await` is a separate    *)
(* step that runs when the awaited promise settles, and any other callback *)
(* may run in between.  The transport (SDK session + socket), the          *)
(* microphone and the audio hardware are the environment: they deliver     *)
(* their callbacks in any order their interface allows.                    *)
(***************************************************************************)
EXTENDS Integers, Sequences, FiniteSets, TLC

\* ---------------------------------------------------------------- bounds
MaxConn == 2        \* connect() calls explored
MaxMsgs == 3        \* inbound messages explored
MaxDecodes == 2     \* audio decodes that may be in flight at once
MaxSources == 2     \* scheduled sources tracked in the Pending Playback Buffer
MaxErrors == 1      \* transport error events explored
MaxCaptures == 2    \* capture blocks explored
MaxLog == 3         \* log entries explored
MaxTime == 3        \* ticks of an output clock explored
MaxTicks == 4       \* steps of the wall clock explored
MaxTexts == 2       \* text messages explored
MaxFrames == 2      \* distinct video frames explored
MaxShots == 2       \* video frame captures explored

Conns == 1..MaxConn
NULL == 0

\* ---------------------------------------------------------------- text
\* Transcript text is a sequence of characters; SP and NL are whitespace
\* characters, NL a line break, DOT a sentence-ending punctuation mark and
\* STAR a markdown character.
SP == 0
CH == 1
CL == 2
DOT == 7
NL == 8
STAR == 9

isSpace(c) == c \in {SP, NL}

RECURSIVE trimStart(_)
trimStart(t) ==
  IF t # <<>> /\ isSpace(Head(t)) THEN trimStart(Tail(t)) ELSE t

RECURSIVE trimEnd(_)
trimEnd(t) ==
  IF t # <<>> /\ isSpace(t[Len(t)]) THEN trimEnd(SubSeq(t, 1, Len(t) - 1)) ELSE t

trim(t) == trimEnd(trimStart(t))

\* undefined (an unset latency / responseTime)
UNDEF == -1

\* The fixed texts of the App's own log entries, one symbol each.
TxtConnected == <<3>>
TxtDisconnected == <<4>>
TxtError == <<5>>

\* Senders of log entries and the texts of transcript updates and typed
\* messages.
Senders == {"user", "ai", "system"}
Texts == {<<CH>>, <<CL>>}

\* ---------------------------------------------------------------- messages
\* An inbound LiveServerMessage: the fields handleMessage reads.
\* outText / inText = <<>> stands for "no outputTranscription / inputTranscription".
\* toolCall is the list of function calls, <<>> for "no toolCall".
Msg(a, i, o, u, tc) ==
  [audio |-> a, interrupted |-> i, outText |-> o, inText |-> u, turnComplete |-> tc,
   toolCall |-> <<>>]

NoDrop == [n |-> 0, m |-> Msg(FALSE, FALSE, <<>>, <<>>, FALSE)]

Messages ==
  { Msg(TRUE,  FALSE, <<>>,   <<>>,   FALSE),     \* audio chunk only
    Msg(TRUE,  FALSE, <<CH>>, <<>>,   FALSE),     \* audio chunk with an output delta
    Msg(FALSE, FALSE, <<CH>>, <<>>,   FALSE),     \* output delta
    Msg(FALSE, FALSE, <<CL>>, <<>>,   FALSE),     \* output delta
    Msg(FALSE, FALSE, <<SP>>, <<>>,   FALSE),     \* whitespace-only output delta
    Msg(FALSE, FALSE, <<>>,   <<CH>>, FALSE),     \* input delta
    Msg(TRUE,  FALSE, <<>>,   <<CL>>, FALSE),     \* audio chunk with an input delta
    Msg(FALSE, TRUE,  <<>>,   <<>>,   FALSE),     \* interrupted
    Msg(FALSE, FALSE, <<>>,   <<>>,   TRUE),      \* turn complete
    Msg(FALSE, FALSE, <<CL>>, <<>>,   TRUE) }     \* output delta and turn complete

\* ---------------------------------------------------------------- audio codec
\* A float sample is the rational a / SampleDen, SampleRes grid points to each
\* step of the 16-bit scale; samples are taken on a grid of SampleStep,
\* MaxSample steps to either side of zero, and at -1 and 1.
SampleRes == 4
SampleDen == 32768 * SampleRes
SampleStep == 997
MaxSample == 200

Samples ==
  {k * SampleStep : k \in -MaxSample..MaxSample} \cup {-SampleDen, SampleDen}

\* The product of the sample c / SampleDen, c >= 0, and the scale m, without
\* its fraction; computed on the two parts of c so that no intermediate
\* value leaves the 32-bit range.
scaled(c, m) ==
  LET h == c \div SampleRes
      l == c % SampleRes
  IN  (h * m) \div 32768 + (((h * m) % 32768) * SampleRes + l * m) \div SampleDen

\* Conversion of a number to an integer element of a typed array: the
\* fraction is dropped towards zero, then the value is reduced modulo 2^16.

toInt16(x) == ((x + 32768) % 65536) - 32768

\* Math.max(-1, Math.min(1, x)) on numerators.
clamp(a) ==
  LET m == IF a < SampleDen THEN a ELSE SampleDen
  IN  IF m > -SampleDen THEN m ELSE -SampleDen

\* One element of the Int16Array createPcmBlob fills.
toPcm(a) ==
  LET c == clamp(a)
  IN  toInt16(IF c < 0 THEN -scaled(-c, 32768) ELSE scaled(c, 32767))

\* The bytes of an Int16Array buffer, low byte first.
RECURSIVE int16Bytes(_)
int16Bytes(xs) ==
  IF xs = <<>> THEN <<>>
  ELSE LET u == Head(xs) % 65536
       IN  <<u % 256, u \div 256>> \o int16Bytes(Tail(xs))

\* btoa: three bytes become four six-bit digits; PAD fills the last group.
PAD == 64

RECURSIVE arrayBufferToBase64(_)
arrayBufferToBase64(bytes) ==
  IF bytes = <<>> THEN <<>>
  ELSE IF Len(bytes) = 1
  THEN <<bytes[1] \div 4, (bytes[1] % 4) * 16, PAD, PAD>>
  ELSE IF Len(bytes) = 2
  THEN <<bytes[1] \div 4, (bytes[1] % 4) * 16 + bytes[2] \div 16,
         (bytes[2] % 16) * 4, PAD>>
  ELSE <<bytes[1] \div 4, (bytes[1] % 4) * 16 + bytes[2] \div 16,
         (bytes[2] % 16) * 4 + bytes[3] \div 64, bytes[3] % 64>>
       \o arrayBufferToBase64(SubSeq(bytes, 4, Len(bytes)))

\* createPcmBlob: the payload of a block of samples.
createPcmBlob(data) ==
  arrayBufferToBase64(int16Bytes([i \in 1..Len(data) |-> toPcm(data[i])]))

\* atob: four digits become up to three bytes.
RECURSIVE base64ToUint8Array(_)
base64ToUint8Array(b64) ==
  IF Len(b64) < 4 THEN <<>>
  ELSE LET b1 == b64[1] * 4 + b64[2] \div 16
           b2 == (b64[2] % 16) * 16 + b64[3] \div 4
           b3 == (b64[3] % 4) * 64 + b64[4]
       IN  IF b64[3] = PAD THEN <<b1>>
           ELSE IF b64[4] = PAD THEN <<b1, b2>>
           ELSE <<b1, b2, b3>> \o base64ToUint8Array(SubSeq(b64, 5, Len(b64)))

\* decodeAudioData: an odd byte count is padded with a zero byte; each pair
\* of bytes is one signed 16-bit value k, standing for the sample k / 32768.
RECURSIVE bytesInt16(_)
bytesInt16(bytes) ==
  IF bytes = <<>> THEN <<>>
  ELSE LET u == bytes[1] + 256 * bytes[2]
       IN  <<IF u >= 32768 THEN u - 65536 ELSE u>> \o bytesInt16(SubSeq(bytes, 3, Len(bytes)))

decodeAudioData(data) ==
  bytesInt16(IF Len(data) % 2 # 0 THEN data \o <<0>> ELSE data)

NoCodec == [samples |-> <<>>, payload |-> <<>>, decoded |-> <<>>]

\* ---------------------------------------------------------------- fallback requests
\* The state of one sendTextMessage call: where it stands, its locals
\* startTime, fullText, textBuffer and latency, the chunks received, the
\* text deltas as they arrived and the error caught; handed holds the pieces
\* passed to processTTSChunk, nCuts counts the passes of the sentence loop.
NoStream ==
  [phase |-> "none", startTime |-> 0, fullText |-> <<>>, textBuffer |-> <<>>,
   latency |-> UNDEF, nChunks |-> 0, arrived |-> <<>>, error |-> 0,
   handed |-> <<>>, nCuts |-> 0]

NoRequests == [r \in 1..MaxTexts |-> NoStream]

\* The ScreenShare component before a screen is picked.  lastFrameTimeRef
\* starts at 0, which is more than the throttle before any Date.now(); the
\* video element is "none" (not rendered), "mounted" or "loaded"; intervalAt
\* is the time at which the frame interval is due, deps the dependencies the
\* effects last ran with.  lastPush is the time of the last onFrame call and
\* gap, in the state reached by an onFrame call, the time since the one
\* before it.
\* No handleStop is running.  pc is "idle", "stop" (the innermost handleStop
\* has called disconnect() and is calling ScreenShare.stop()), "returned" (the
\* outermost handleStop returned) or "thrown" (a RangeError left the handler).
NoStop == [pc |-> "idle", depth |-> 0, disconnects |-> 0, stops |-> 0]

ThrottleMs == 500
IntervalMs == 2000

NoShare ==
  [isSharing |-> FALSE, video |-> "none", lastFrameTime |-> 0 - ThrottleMs,
   intervalAt |-> UNDEF, deps |-> <<>>, lastPush |-> UNDEF, gap |-> UNDEF]

\* ---------------------------------------------------------------- tool calls
\* Tool names and result strings, one symbol each.  ToolAddTask and
\* ToolGetTasks have a handler in callbacks.toolExecutors, ToolUnknown has none.
ToolAddTask == 10
ToolGetTasks == 11
ToolUnknown == 12
ResOk == 20
ResError == 21
ResUnknown == 22
TxtTool == 6

\* A function call of a toolCall message; throws tells whether its handler
\* will throw.
FunctionCall(id, name, throws) == [id |-> id, name |-> name, throws |-> throws]

ToolCalls ==
  { <<FunctionCall(1, ToolAddTask, FALSE)>>,
    <<FunctionCall(1, ToolAddTask, TRUE)>>,
    <<FunctionCall(1, ToolUnknown, FALSE)>>,
    <<FunctionCall(2, ToolAddTask, FALSE), FunctionCall(1, ToolGetTasks, TRUE)>>,
    <<FunctionCall(1, ToolGetTasks, TRUE), FunctionCall(2, ToolUnknown, FALSE)>> }

ToolMessages ==
  { [m EXCEPT !.toolCall = calls] :
      m \in { Msg(FALSE, FALSE, <<>>,   <<>>, FALSE),
              Msg(FALSE, FALSE, <<CH>>, <<>>, FALSE),
              Msg(FALSE, FALSE, <<>>,   <<>>, TRUE) },
      calls \in ToolCalls }

NoTools == [calls |-> <<>>, runs |-> <<>>, sent |-> <<>>]

\* ---------------------------------------------------------------- state
VARIABLES
  \* GeminiLiveService fields
  session,                    \* this.session: NULL or the transport session of connect call c
  statsInterval,              \* this.statsInterval is set
  volumeInterval,             \* this.volumeInterval is set
  audioContext,               \* this.inputAudioContext / this.outputAudioContext: NULL or c
  processor,                  \* this.processor: NULL or c
  mediaStream,                \* this.mediaStream: NULL or c
  audioSources,               \* size of this.audioSources
  currentInputTranscription,
  currentOutputTranscription,
  responsePending,
  modelTurns,                 \* this.stats.modelTurns
  \* App (UI controller)
  status,                     \* connectionState
  \* connect() calls and their environment
  nConnect,                   \* number of connect() calls made
  pc,                         \* pc[c]: where connect call c stands
  transport,                  \* transport[c]: "none", "opening", "open", "failed"
  closed,                     \* closed[c]: the close event of transport c was delivered
  closeCalled,                \* closeCalled[c]: close() was called on session c
  hung,                       \* hung[c]: the connect promise of c will never settle
  micLive,                    \* microphone streams whose tracks are live
  ctxClosed,                  \* audio contexts that were closed
  handler,                    \* handler[c]: context on which onaudioprocess of c is installed, or NULL
  decoding,                   \* handleMessage calls suspended in `await decodeAudioData`
  dispatching,                \* dispatching[c]: capture blocks waiting in sessionPromise.then of c
  nMsgs,                      \* inbound messages delivered so far
  nErrors,                    \* transport error events delivered so far
  \* observation (history) variables
  onDisconnectCount,
  onErrorCount,
  idleDisconnect,             \* a disconnect() ran while no session was active
  afterDisconnect,            \* a disconnect() returned and no connect() was called since
  seenAtClose,                \* seenAtClose[c]: this.session when close() was called on c
  sentAfterClose,             \* something was sent to a session after close() was called on it
  sends,                      \* audio blocks sent: <<session sent to, this.session at that time>>
  staleDropped,               \* a dispatch was dropped because this.session had changed
  guardDropped,               \* a capture block was dropped by the `!this.session` guard
  lastHandled,                \* highest arrival number whose post-decode steps have run
  outOfOrder,                 \* post-decode steps of a message ran after those of a later one
  arrivedOut,                 \* output deltas in arrival order since the last ai finalization
  arrivedIn,                  \* input deltas in arrival order since the last user finalization
  lastFinalAi,                \* last finalized ai entry and the deltas that had arrived for it
  lastFinalUser,
  now,                        \* Date.now(), in ms
  tokenHistory,               \* this.tokenHistory: the usage ledger, entries [time, count]
  tokensPerMinute,            \* this.stats.tokensPerMinute
  imagesSent,                 \* this.stats.imagesSent
  currentInputVolume,         \* this.currentInputVolume, in hundredths
  nCaptures,                  \* capture blocks delivered so far
  lastUserInteractionTime,    \* this.lastUserInteractionTime
  currentTurnLatency,         \* this.currentTurnLatency: UNDEF or ms
  logs,                       \* App logs: entries [sender, message, isFinal, responseTime]
  lastUpdate,                 \* the last onTranscript call: its sender, isFinal and the index it wrote
  nextStartTime,              \* playback cursor, in units of 50 ms of the output clock
  ctxTime,                    \* currentTime of each output context
  lastChunk,                  \* start and end of the last chunk scheduled since the last stopAudioOutput
  stopRan,                    \* stopAudioOutput ran in the step that led here
  added,                      \* every ledger entry recorded since the ledger was last emptied
  statsRan,                   \* updateStats ran in the step that led here
  lastBlock,                  \* the capture block handled last
  nSent,                      \* PCM payloads sent to a session
  lastFrame,                  \* the cached video frame, or NULL
  isVideoStreamActive,        \* the service takes the video stream as running
  isVideoPaused,              \* App state: the user paused the video
  isScreenSharing,            \* App state: the screen is being shared
  outbound,                   \* the last request built by sendTextMessage
  textBuilt,                  \* sendTextMessage built a request in the step that led here
  textPending,                \* sendTextMessage calls awaiting the resume of the output context
  nTexts,                     \* text messages submitted
  nFrames,                    \* video frames captured
  updated,                    \* onTranscript ran in the step that led here
  lastScheduled,              \* arrival number of the message whose chunk this step scheduled, else 0
  interruptedAt,              \* arrival number of the latest interrupted message handled
  codec,                      \* one pass through the audio codec: the samples, their payload, the decoded samples
  toolStep,                   \* the tool calls of the message handled in this step, the handlers run and the tool responses sent
  requests,                   \* requests[r]: the fallback request of the r-th sendTextMessage call
  speech,                     \* utterances queued in speech synthesis, each with the request it came from
  lastSpoken,                 \* request whose sentence this step handed to speech synthesis, else 0
  share,                      \* the ScreenShare component: isSharing, the video element, lastFrameTimeRef, the frame interval, the dependencies its effects last ran with, and the time of the last onFrame
  dropped,                    \* the message whose audio chunk failed to decode in this step and was dropped, n = 0 for none
  stopping                    \* the handleStop call chain: where it stands, the handleStop frames on the stack, the disconnect() and ScreenShare.stop() calls made

vars ==
  << session, statsInterval, volumeInterval, audioContext, processor, mediaStream,
     audioSources, currentInputTranscription, currentOutputTranscription,
     responsePending, modelTurns, status, nConnect, pc, transport, closed,
     closeCalled, hung, micLive, ctxClosed, handler, decoding, dispatching, nMsgs, nErrors,
     onDisconnectCount, onErrorCount, idleDisconnect, afterDisconnect, seenAtClose,
     sentAfterClose, sends, staleDropped, guardDropped,
     lastHandled, outOfOrder, arrivedOut, arrivedIn, lastFinalAi, lastFinalUser,
     now,
     tokenHistory,
     tokensPerMinute,
     imagesSent,
     currentInputVolume,
     nCaptures,
     lastUserInteractionTime,
     currentTurnLatency,
     logs,
     lastUpdate,
     nextStartTime,
     ctxTime,
     lastChunk,
     stopRan,
     added,
     statsRan,
     lastBlock,
     nSent,
     lastFrame,
     isVideoStreamActive,
     isVideoPaused,
     isScreenSharing,
     outbound,
     textBuilt,
     textPending,
     nTexts,
     nFrames,
     updated,
     lastScheduled,
     interruptedAt,
     codec,
     toolStep,
     requests,
     speech,
     lastSpoken,
     share,
     dropped,
     stopping >>

\* The current state as one record, so that the synchronous code of a handler
\* can be written as a composition of functions on it.
Cur ==
  [ session |-> session, statsInterval |-> statsInterval,
    volumeInterval |-> volumeInterval, audioContext |-> audioContext,
    processor |-> processor, mediaStream |-> mediaStream,
    audioSources |-> audioSources,
    currentInputTranscription |-> currentInputTranscription,
    currentOutputTranscription |-> currentOutputTranscription,
    responsePending |-> responsePending, modelTurns |-> modelTurns,
    status |-> status, nConnect |-> nConnect, pc |-> pc, transport |-> transport,
    closed |-> closed, closeCalled |-> closeCalled, hung |-> hung,
    micLive |-> micLive, ctxClosed |-> ctxClosed, handler |-> handler,
    decoding |-> decoding, dispatching |-> dispatching, nMsgs |-> nMsgs,
    nErrors |-> nErrors,
    onDisconnectCount |-> onDisconnectCount, onErrorCount |-> onErrorCount,
    idleDisconnect |-> idleDisconnect, afterDisconnect |-> afterDisconnect,
    seenAtClose |-> seenAtClose, sentAfterClose |-> sentAfterClose,
    sends |-> sends,
    staleDropped |-> staleDropped, guardDropped |-> guardDropped,
    lastHandled |-> lastHandled, outOfOrder |-> outOfOrder,
    arrivedOut |-> arrivedOut, arrivedIn |-> arrivedIn,
    lastFinalAi |-> lastFinalAi, lastFinalUser |-> lastFinalUser,
    now |-> now,
    tokenHistory |-> tokenHistory,
    tokensPerMinute |-> tokensPerMinute,
    imagesSent |-> imagesSent,
    currentInputVolume |-> currentInputVolume,
    nCaptures |-> nCaptures,
    lastUserInteractionTime |-> lastUserInteractionTime,
    currentTurnLatency |-> currentTurnLatency,
    logs |-> logs,
    lastUpdate |-> lastUpdate,
    nextStartTime |-> nextStartTime,
    ctxTime |-> ctxTime,
    lastChunk |-> lastChunk,
    stopRan |-> FALSE,
    added |-> added,
    statsRan |-> FALSE,
    lastBlock |-> lastBlock,
    nSent |-> nSent,
    lastFrame |-> lastFrame,
    isVideoStreamActive |-> isVideoStreamActive,
    isVideoPaused |-> isVideoPaused,
    isScreenSharing |-> isScreenSharing,
    outbound |-> outbound,
    textBuilt |-> FALSE,
    textPending |-> textPending,
    nTexts |-> nTexts,
    nFrames |-> nFrames,
    updated |-> FALSE,
    lastScheduled |-> 0,
    interruptedAt |-> interruptedAt,
    codec |-> codec,
    toolStep |-> NoTools,
    requests |-> requests,
    speech |-> speech,
    lastSpoken |-> 0,
    share |-> [share EXCEPT !.gap = UNDEF],
    dropped |-> NoDrop,
    stopping |-> stopping ]

Commit(r) ==
  /\ session' = r.session
  /\ statsInterval' = r.statsInterval
  /\ volumeInterval' = r.volumeInterval
  /\ audioContext' = r.audioContext
  /\ processor' = r.processor
  /\ mediaStream' = r.mediaStream
  /\ audioSources' = r.audioSources
  /\ currentInputTranscription' = r.currentInputTranscription
  /\ currentOutputTranscription' = r.currentOutputTranscription
  /\ responsePending' = r.responsePending
  /\ modelTurns' = r.modelTurns
  /\ status' = r.status
  /\ nConnect' = r.nConnect
  /\ pc' = r.pc
  /\ transport' = r.transport
  /\ closed' = r.closed
  /\ closeCalled' = r.closeCalled
  /\ hung' = r.hung
  /\ micLive' = r.micLive
  /\ ctxClosed' = r.ctxClosed
  /\ handler' = r.handler
  /\ decoding' = r.decoding
  /\ dispatching' = r.dispatching
  /\ nMsgs' = r.nMsgs
  /\ nErrors' = r.nErrors
  /\ onDisconnectCount' = r.onDisconnectCount
  /\ onErrorCount' = r.onErrorCount
  /\ idleDisconnect' = r.idleDisconnect
  /\ afterDisconnect' = r.afterDisconnect
  /\ seenAtClose' = r.seenAtClose
  /\ sentAfterClose' = r.sentAfterClose
  /\ sends' = r.sends
  /\ staleDropped' = r.staleDropped
  /\ guardDropped' = r.guardDropped
  /\ lastHandled' = r.lastHandled
  /\ outOfOrder' = r.outOfOrder
  /\ arrivedOut' = r.arrivedOut
  /\ arrivedIn' = r.arrivedIn
  /\ lastFinalAi' = r.lastFinalAi
  /\ lastFinalUser' = r.lastFinalUser
  /\ now' = r.now
  /\ tokenHistory' = r.tokenHistory
  /\ tokensPerMinute' = r.tokensPerMinute
  /\ imagesSent' = r.imagesSent
  /\ currentInputVolume' = r.currentInputVolume
  /\ nCaptures' = r.nCaptures
  /\ lastUserInteractionTime' = r.lastUserInteractionTime
  /\ currentTurnLatency' = r.currentTurnLatency
  /\ logs' = r.logs
  /\ lastUpdate' = r.lastUpdate
  /\ nextStartTime' = r.nextStartTime
  /\ ctxTime' = r.ctxTime
  /\ lastChunk' = r.lastChunk
  /\ stopRan' = r.stopRan
  /\ added' = r.added
  /\ statsRan' = r.statsRan
  /\ lastBlock' = r.lastBlock
  /\ nSent' = r.nSent
  /\ lastFrame' = r.lastFrame
  /\ isVideoStreamActive' = r.isVideoStreamActive
  /\ isVideoPaused' = r.isVideoPaused
  /\ isScreenSharing' = r.isScreenSharing
  /\ outbound' = r.outbound
  /\ textBuilt' = r.textBuilt
  /\ textPending' = r.textPending
  /\ nTexts' = r.nTexts
  /\ nFrames' = r.nFrames
  /\ updated' = r.updated
  /\ lastScheduled' = r.lastScheduled
  /\ interruptedAt' = r.interruptedAt
  /\ codec' = r.codec
  /\ toolStep' = r.toolStep
  /\ requests' = r.requests
  /\ speech' = r.speech
  /\ lastSpoken' = r.lastSpoken
  /\ share' = r.share
  /\ dropped' = r.dropped
  /\ stopping' = r.stopping

NoFinal == [message |-> <<>>, arrived |-> <<>>, n |-> 0]
HintNone == "none"
HintWaiting == "waiting for the video feed to sync"
HintPaused == "No screen shared / Video Paused"
NoRequest == [text |-> <<>>, hint |-> HintNone, image |-> NULL]
NoBlock == [n |-> 0, r |-> 0, rms100 |-> 0]
NoChunk == [start |-> UNDEF, end |-> UNDEF]
NoUpdate == [sender |-> "none", isFinal |-> TRUE, index |-> 0]

Init ==
  /\ session = NULL
  /\ statsInterval = FALSE
  /\ volumeInterval = FALSE
  /\ audioContext = NULL
  /\ processor = NULL
  /\ mediaStream = NULL
  /\ audioSources = 0
  /\ currentInputTranscription = <<>>
  /\ currentOutputTranscription = <<>>
  /\ responsePending = FALSE
  /\ modelTurns = 0
  /\ status = "IDLE"
  /\ nConnect = 0
  /\ pc = [c \in Conns |-> "idle"]
  /\ transport = [c \in Conns |-> "none"]
  /\ closed = [c \in Conns |-> FALSE]
  /\ closeCalled = [c \in Conns |-> FALSE]
  /\ hung = [c \in Conns |-> FALSE]
  /\ micLive = {}
  /\ ctxClosed = {}
  /\ handler = [c \in Conns |-> NULL]
  /\ decoding = {}
  /\ dispatching = [c \in Conns |-> 0]
  /\ nMsgs = 0
  /\ nErrors = 0
  /\ onDisconnectCount = 0
  /\ onErrorCount = 0
  /\ idleDisconnect = FALSE
  /\ afterDisconnect = FALSE
  /\ seenAtClose = [c \in Conns |-> NULL]
  /\ sentAfterClose = FALSE
  /\ sends = {}
  /\ staleDropped = FALSE
  /\ guardDropped = FALSE
  /\ lastHandled = 0
  /\ outOfOrder = FALSE
  /\ arrivedOut = <<>>
  /\ arrivedIn = <<>>
  /\ lastFinalAi = NoFinal
  /\ lastFinalUser = NoFinal
  /\ now = 0
  /\ tokenHistory = <<>>
  /\ tokensPerMinute = 0
  /\ imagesSent = 0
  /\ currentInputVolume = 0
  /\ nCaptures = 0
  /\ lastUserInteractionTime = 0
  /\ currentTurnLatency = UNDEF
  /\ logs = <<>>
  /\ lastUpdate = NoUpdate
  /\ nextStartTime = 0
  /\ ctxTime = [c \in Conns |-> 0]
  /\ lastChunk = NoChunk
  /\ stopRan = FALSE
  /\ added = <<>>
  /\ statsRan = FALSE
  /\ lastBlock = NoBlock
  /\ nSent = 0
  /\ lastFrame = NULL
  /\ isVideoStreamActive = TRUE
  /\ isVideoPaused = FALSE
  /\ isScreenSharing = FALSE
  /\ outbound = NoRequest
  /\ textBuilt = FALSE
  /\ textPending = <<>>
  /\ nTexts = 0
  /\ nFrames = 0
  /\ updated = FALSE
  /\ lastScheduled = 0
  /\ interruptedAt = 0
  /\ codec = NoCodec
  /\ toolStep = NoTools
  /\ requests = NoRequests
  /\ speech = <<>>
  /\ lastSpoken = 0
  /\ share = NoShare
  /\ dropped = NoDrop
  /\ stopping = NoStop

\* ---------------------------------------------------------------- usage ledger
WindowMs == 60000

RECURSIVE sumCounts(_)
sumCounts(h) ==
  IF h = <<>> THEN 0 ELSE Head(h).count + sumCounts(Tail(h))

\* updateStats: drop the old entries, sum the rest.
\* A mutation of updateStats: an entry exactly one minute old still counts.
updateStatsInclusive(s) ==
  LET oneMinuteAgo == s.now - WindowMs
      recent(entry) == entry.time >= oneMinuteAgo
      kept == SelectSeq(s.tokenHistory, recent)
  IN  [s EXCEPT !.tokenHistory = kept, !.tokensPerMinute = sumCounts(kept),
                !.statsRan = TRUE]

updateStats(s) ==
  LET oneMinuteAgo == s.now - WindowMs
      recent(entry) == entry.time > oneMinuteAgo
      kept == SelectSeq(s.tokenHistory, recent)
  IN  [s EXCEPT !.tokenHistory = kept, !.tokensPerMinute = sumCounts(kept),
                !.statsRan = TRUE]

recordTokenUsage(s, count) ==
  LET entry == [time |-> s.now, count |-> count]
  IN  updateStats([s EXCEPT !.tokenHistory = Append(@, entry),
                            !.added = Append(@, entry)])

\* Math.ceil(a / b) for a >= 0, b > 0.
ceilDiv(a, b) == (a + b - 1) \div b

\* ---------------------------------------------------------------- video
Frames == 1..MaxFrames

sendVideoFrame(s, image) ==
  recordTokenUsage([s EXCEPT !.lastFrame = image, !.imagesSent = @ + 1], 258)

notifyScreenStart(s) ==
  LET s1 == [s EXCEPT !.isVideoStreamActive = TRUE]
  IN  IF s1.session # NULL THEN recordTokenUsage(s1, 15) ELSE s1

notifyVideoStateChange(s, isPaused) ==
  [s EXCEPT !.isVideoStreamActive = ~isPaused,
            !.lastFrame = IF isPaused THEN NULL ELSE @]

\* ---------------------------------------------------------------- App callbacks
LogEntry(sender, message, isFinal, responseTime) ==
  [sender |-> sender, message |-> message, isFinal |-> isFinal,
   responseTime |-> responseTime]

addLog(s, sender, message) ==
  [s EXCEPT !.logs = Append(@, LogEntry(sender, message, TRUE, UNDEF))]

\* A mutation of matchIndex: no entry ever matches, every update appends.
matchIndexNone(prev, sender) == 0

\* A mutation of matchIndex: the last entry of the sender, final or not.
matchIndexAny(prev, sender) ==
  LET I == {i \in 1..Len(prev) : prev[i].sender = sender}
  IN  IF I = {} THEN 0 ELSE CHOOSE i \in I : \A j \in I : j <= i

\* Index of the last entry of the sender that is not final, or 0.
matchIndex(prev, sender) ==
  LET I == {i \in 1..Len(prev) : prev[i].sender = sender /\ ~prev[i].isFinal}
  IN  IF I = {} THEN 0 ELSE CHOOSE i \in I : \A j \in I : j <= i

onTranscript(s, text, sender, isFinal, responseTime) ==
  LET prev == s.logs
      i == matchIndex(prev, sender)
  IN  IF i # 0
      THEN [s EXCEPT !.logs[i] =
              [@ EXCEPT !.message = text,
                        !.isFinal = isFinal,
                        !.responseTime = IF responseTime # UNDEF THEN responseTime ELSE @],
                     !.lastUpdate = [sender |-> sender, isFinal |-> isFinal, index |-> i],
                     !.updated = TRUE]
      ELSE [s EXCEPT !.logs = Append(@, LogEntry(sender, text, isFinal, responseTime)),
                     !.lastUpdate = [sender |-> sender, isFinal |-> isFinal,
                                     index |-> Len(prev) + 1],
                     !.updated = TRUE]

\* onTranscript of the earlier App: only the last entry of the log can be
\* replaced.
onTranscriptEarlier(s, text, sender, isFinal, responseTime) ==
  LET prev == s.logs
      n == Len(prev)
  IN  IF n > 0 /\ prev[n].sender = sender /\ ~prev[n].isFinal
      THEN [s EXCEPT !.logs[n] =
              [@ EXCEPT !.message = text,
                        !.isFinal = isFinal,
                        !.responseTime = IF responseTime # UNDEF THEN responseTime ELSE @],
                     !.lastUpdate = [sender |-> sender, isFinal |-> isFinal, index |-> n],
                     !.updated = TRUE]
      ELSE [s EXCEPT !.logs = Append(@, LogEntry(sender, text, isFinal, responseTime)),
                     !.lastUpdate = [sender |-> sender, isFinal |-> isFinal,
                                     index |-> n + 1],
                     !.updated = TRUE]

onConnect(s) ==
  LET s1 == addLog([s EXCEPT !.status = "CONNECTED"], "system", TxtConnected)
  IN  IF s1.isScreenSharing THEN notifyScreenStart(s1) ELSE s1

onDisconnect(s) ==
  addLog([s EXCEPT !.status = "IDLE", !.onDisconnectCount = @ + 1],
         "system", TxtDisconnected)

onError(s) ==
  addLog([s EXCEPT !.status = "ERROR", !.onErrorCount = @ + 1], "system", TxtError)

\* ---------------------------------------------------------------- teardown
\* A mutation of stopAudioOutput: the sources are stopped, the cursor is kept.
stopAudioOutputKeepsCursor(s) ==
  [s EXCEPT !.audioSources = 0, !.lastChunk = NoChunk, !.speech = <<>>, !.stopRan = TRUE]

\* stopAudioOutput: every source is stopped and forgotten; the cursor is set
\* to the clock of the output context if there is one.
stopAudioOutput(s) ==
  [s EXCEPT !.audioSources = 0,
            !.nextStartTime = IF s.audioContext # NULL
                              THEN s.ctxTime[s.audioContext] ELSE @,
            !.lastChunk = NoChunk,
            !.speech = <<>>,
            !.stopRan = TRUE]

\* A mutation of wasConnected: notify on every disconnect().
wasConnectedAlways(s) == TRUE

wasConnected(s) == s.session # NULL

RECURSIVE disconnect(_, _)

\* currentSession.close().  The transport notes that close() was called and
\* what this.session was at that moment; when reentrant, its close event is
\* delivered from inside the call and the onclose callback (which calls
\* disconnect) runs before close() returns.
closeSession(s, c, reentrant) ==
  LET s1 == [s EXCEPT !.closeCalled[c] = TRUE, !.seenAtClose[c] = s.session]
  IN  IF reentrant /\ ~s1.closed[c]
      THEN disconnect([s1 EXCEPT !.closed[c] = TRUE], FALSE)
      ELSE s1

\* disconnect(): the handle is nulled, then the captured session is closed.
sessionTeardown(s, reentrant) ==
  LET currentSession == s.session
      s1 == [s EXCEPT !.session = NULL]
  IN  IF currentSession # NULL
      THEN closeSession(s1, currentSession, reentrant) ELSE s1

disconnect(s, reentrant) ==
  LET s1 == [s EXCEPT !.statsInterval = FALSE, !.volumeInterval = FALSE]
      was == wasConnected(s1)
      s3 == sessionTeardown(s1, reentrant)
      s4 == [stopAudioOutput(s3) EXCEPT !.lastFrame = NULL,
                                        !.tokenHistory = <<>>, !.added = <<>>,
                                        !.isVideoStreamActive = TRUE]
      s5 == IF s4.processor # NULL
            THEN [s4 EXCEPT !.handler[s4.processor] = NULL] ELSE s4
      s6 == IF s5.audioContext # NULL
            THEN [s5 EXCEPT !.ctxClosed = @ \cup {s5.audioContext}] ELSE s5
      s7 == IF s6.mediaStream # NULL
            THEN [s6 EXCEPT !.micLive = @ \ {s6.mediaStream}, !.mediaStream = NULL]
            ELSE s6
      s8 == IF was THEN onDisconnect(s7) ELSE s7
  IN  [s8 EXCEPT !.afterDisconnect = TRUE,
                 !.idleDisconnect = @ \/ (s.session = NULL)]

\* ---------------------------------------------------------------- connect
\* connect() up to `await getUserMedia`.
connectBegin(s, c) ==
  [s EXCEPT !.modelTurns = 0,
            !.imagesSent = 0,
            !.tokensPerMinute = 0,
            !.tokenHistory = <<>>,
            !.added = <<>>,
            !.statsInterval = TRUE,
            !.audioContext = c,
            !.nextStartTime = s.ctxTime[c],
            !.volumeInterval = TRUE,
            !.nConnect = c,
            !.pc[c] = "awaitMic",
            !.afterDisconnect = FALSE]

\* connect() from the microphone grant up to `await sessionPromise`.
connectOpenTransport(s, c) ==
  [s EXCEPT !.mediaStream = c,
            !.micLive = @ \cup {c},
            !.transport[c] = "opening",
            !.pc[c] = "awaitSession"]

\* The catch block of connect().
connectCatch(s, c, reentrant) ==
  disconnect(onError([s EXCEPT !.pc[c] = "failed"]), reentrant)

startAudioInputStream(s, c) ==
  IF s.audioContext = NULL THEN s
  ELSE [s EXCEPT !.processor = c, !.handler[c] = s.audioContext]

\* The onopen callback of connect call c.
onopen(s, c) ==
  LET s1 == onConnect([s EXCEPT !.transport[c] = "open"])
  IN  IF s1.mediaStream # NULL THEN startAudioInputStream(s1, c) ELSE s1

\* ---------------------------------------------------------------- actions
\* App.handleStart: offered while the status is IDLE.
HandleStart ==
  /\ status = "IDLE"
  /\ nConnect < MaxConn
  /\ LET c == nConnect + 1
         s1 == connectBegin([Cur EXCEPT !.status = "CONNECTING",
                                        !.isVideoPaused = FALSE], c)
     IN  Commit(s1)

\* App.handleStop (Stop button, ScreenShare onStop prop): disconnect(), then
\* ScreenShare.stop(), whose onStop prop calls handleStop and so disconnect()
\* again; every further disconnect() finds the state the second one left.
handleStop(s, reentrant) ==
  [disconnect(disconnect(s, reentrant), FALSE) EXCEPT !.isScreenSharing = FALSE]

HandleStop ==
  /\ status \in {"IDLE", "CONNECTING", "CONNECTED", "ERROR"}   \* whatever the status
  /\ \E reentrant \in BOOLEAN :
       Commit(handleStop(Cur, reentrant))

\* The "Dismiss" button of the error overlay.
Dismiss ==
  /\ status = "ERROR"
  /\ Commit([Cur EXCEPT !.status = "IDLE"])

MicGranted(c) ==
  /\ pc[c] = "awaitMic"
  /\ Commit(connectOpenTransport(Cur, c))

MicRejected(c) ==
  /\ pc[c] = "awaitMic"
  /\ \E reentrant \in BOOLEAN :
       Commit(connectCatch(Cur, c, reentrant))

TransportOpen(c) ==
  /\ transport[c] = "opening"
  /\ pc[c] = "awaitSession"
  /\ ~closed[c]
  /\ Commit(onopen(Cur, c))

\* sessionPromise resolves: `this.session = await sessionPromise`.
SessionResolve(c) ==
  /\ pc[c] = "awaitSession"
  /\ transport[c] = "open"
  /\ Commit([Cur EXCEPT !.session = c, !.pc[c] = "done"])

\* sessionPromise rejects: the handshake failed and the transport is gone.
SessionReject(c) ==
  /\ pc[c] = "awaitSession"
  /\ transport[c] = "opening"
  /\ ~hung[c]
  /\ \E reentrant \in BOOLEAN :
       Commit(connectCatch([Cur EXCEPT !.transport[c] = "failed"], c, reentrant))

\* The onerror callback of connect call c.
TransportError(c) ==
  /\ transport[c] \in {"opening", "open"}
  /\ ~closed[c]
  /\ nErrors < MaxErrors
  /\ Commit(onError([Cur EXCEPT !.nErrors = @ + 1]))

\* The onclose callback of connect call c.  A transport that closes before
\* it opened may leave the connect promise pending for ever.
TransportClose(c) ==
  /\ transport[c] \in {"opening", "open"}
  /\ ~closed[c]
  /\ \E h \in (IF transport[c] = "opening" /\ pc[c] = "awaitSession" THEN BOOLEAN ELSE {FALSE}) :
       Commit(disconnect([Cur EXCEPT !.closed[c] = TRUE, !.hung[c] = h], FALSE))

\* ---------------------------------------------------------------- inbound messages
hasPostEffects(m) ==
  m.interrupted \/ m.outText # <<>> \/ m.inText # <<>> \/ m.turnComplete

\* executeTool: the handler named by the call runs; what it returns, or the
\* error string made of what it throws, is the result.
executeTool(fc) ==
  IF fc.name = ToolUnknown THEN ResUnknown
  ELSE IF fc.throws THEN ResError ELSE ResOk

toolText(fc, result) == <<TxtTool, fc.name, result>>

\* The loop over message.toolCall.functionCalls from call i on: run the
\* handler, push the response, log the execution.
RECURSIVE toolLoop(_, _, _, _)
toolLoop(s, calls, i, responses) ==
  IF i > Len(calls) THEN [state |-> s, responses |-> responses]
  ELSE LET fc == calls[i]
           result == executeTool(fc)
           s1 == IF fc.name = ToolUnknown THEN s
                 ELSE [s EXCEPT !.toolStep.runs = Append(@, [id |-> fc.id, name |-> fc.name])]
           s2 == onTranscript(s1, toolText(fc, result), "system", TRUE, UNDEF)
       IN  toolLoop(s2, calls, i + 1,
                    Append(responses, [id |-> fc.id, name |-> fc.name, result |-> result]))

\* The tool-call part of handleMessage; the results go back in one
\* sendToolResponse when a session is set.  The message sent is recorded with
\* the log length, accumulators and turn count at the time of sending.
handleToolCalls(s, calls) ==
  LET l  == toolLoop([s EXCEPT !.toolStep.calls = calls], calls, 1, <<>>)
      s1 == l.state
  IN  IF s1.session # NULL /\ Len(l.responses) > 0
      THEN [s1 EXCEPT !.toolStep.sent =
              Append(@, [to |-> s1.session,
                         functionResponses |-> l.responses,
                         logsAt |-> Len(s1.logs),
                         outAt |-> s1.currentOutputTranscription,
                         inAt |-> s1.currentInputTranscription,
                         turnsAt |-> s1.modelTurns])]
      ELSE s1

\* handleMessage up to the audio decode: input tracking, tool calls and the
\* latency notice.
handleMessageHead(s, m) ==
  LET s0 == IF m.inText # <<>>
            THEN [s EXCEPT !.lastUserInteractionTime = s.now,
                           !.responsePending = TRUE,
                           !.currentTurnLatency = UNDEF]
            ELSE s
      s1 == IF m.toolCall # <<>> THEN handleToolCalls(s0, m.toolCall) ELSE s0
  IN  IF m.audio /\ s1.responsePending
      THEN LET s2 == [s1 EXCEPT !.currentTurnLatency = s1.now - s1.lastUserInteractionTime,
                                !.responsePending = FALSE]
           IN  onTranscript(s2, s2.currentOutputTranscription, "ai", FALSE,
                            s2.currentTurnLatency)
      ELSE s1

\* Clock units are 50 ms: the lead of a chunk that starts after a gap.
Lead == 1
Durations == {1, 2}

\* The start time scheduleAudioPlay picks for a chunk.
startAt(nextStart, currentTime) ==
  IF nextStart < currentTime THEN currentTime + Lead ELSE nextStart

\* scheduleAudioPlay: the chunk starts at the cursor, or after the lead when
\* the cursor is in the past; the cursor moves to its end; the source joins
\* the Pending Playback Buffer.
scheduleAudioPlay(s, duration) ==
  IF s.audioContext = NULL THEN s
  ELSE LET start == startAt(s.nextStartTime, s.ctxTime[s.audioContext])
       IN  [s EXCEPT !.nextStartTime = start + duration,
                     !.lastChunk = [start |-> start, end |-> start + duration],
                     !.audioSources = IF @ < MaxSources THEN @ + 1 ELSE @]

\* Finalization of one direction at turn complete.
finalizeInput(s, n) ==
  IF trim(s.currentInputTranscription) # <<>>
  THEN LET s1 == onTranscript(s, s.currentInputTranscription, "user", TRUE, UNDEF)
       IN  [s1 EXCEPT !.lastFinalUser = [message |-> s.currentInputTranscription,
                                         arrived |-> s.arrivedIn, n |-> n],
                      !.arrivedIn = <<>>,
                      !.currentInputTranscription = <<>>]
  ELSE s

finalizeOutput(s, n) ==
  IF trim(s.currentOutputTranscription) # <<>>
  THEN LET s1 == onTranscript(s, s.currentOutputTranscription, "ai", TRUE,
                              s.currentTurnLatency)
       IN  [s1 EXCEPT !.lastFinalAi = [message |-> s.currentOutputTranscription,
                                       arrived |-> s.arrivedOut, n |-> n],
                      !.arrivedOut = <<>>,
                      !.currentOutputTranscription = <<>>,
                      !.currentTurnLatency = UNDEF]
  ELSE s

\* handleMessage after the audio decode: interruption, transcription deltas,
\* turn complete.  n is the arrival number of the message.
handleMessageTail(s, m, n) ==
  LET s0 == IF hasPostEffects(m)
            THEN [s EXCEPT !.outOfOrder = @ \/ (n < s.lastHandled),
                           !.lastHandled = IF n > @ THEN n ELSE @]
            ELSE s
      s1 == IF m.interrupted
            THEN [stopAudioOutput(s0) EXCEPT !.responsePending = FALSE,
                                             !.interruptedAt = IF n > @ THEN n ELSE @]
            ELSE s0
      s2 == IF m.outText # <<>>
            THEN LET t == [s1 EXCEPT !.currentOutputTranscription = @ \o m.outText]
                 IN  onTranscript(t, t.currentOutputTranscription, "ai", FALSE,
                                  t.currentTurnLatency)
            ELSE s1
      s3 == IF m.inText # <<>>
            THEN LET t == [s2 EXCEPT !.currentInputTranscription = @ \o m.inText]
                 IN  onTranscript(t, t.currentInputTranscription, "user", FALSE, UNDEF)
            ELSE s2
  IN  IF m.turnComplete
      THEN LET s4 == [s3 EXCEPT !.modelTurns = @ + 1]
               s5 == recordTokenUsage(s4, ceilDiv(Len(s4.currentOutputTranscription), 4))
           IN  finalizeOutput(finalizeInput(s5, n), n)
      ELSE s3

\* The onmessage callback of connect call c delivers message m.
Message(c, m) ==
  /\ transport[c] = "open"
  /\ ~closed[c]
  /\ nMsgs < MaxMsgs
  /\ m.audio => Cardinality(decoding) < MaxDecodes
  /\ LET n  == nMsgs + 1
         s0 == [Cur EXCEPT !.nMsgs = n,
                           !.arrivedOut = @ \o m.outText,
                           !.arrivedIn = @ \o m.inText]
         s1 == handleMessageHead(s0, m)
     IN  IF m.audio /\ s1.audioContext # NULL
         THEN Commit([s1 EXCEPT !.decoding = @ \cup {[n |-> n, m |-> m]}])
         ELSE Commit(handleMessageTail(s1, m, n))

\* `await decodeAudioData` of a suspended handleMessage settles.  On a context
\* that was closed meanwhile, creating the source either works or throws into
\* the catch around decode and schedule.
DecodeDone(d) ==
  /\ d \in decoding
  /\ \E throws \in (IF audioContext \in ctxClosed THEN BOOLEAN ELSE {FALSE}),
        duration \in Durations :
       LET s0 == [Cur EXCEPT !.decoding = @ \ {d}]
           s1 == IF throws \/ s0.audioContext = NULL THEN s0
                 ELSE [scheduleAudioPlay(s0, duration) EXCEPT !.lastScheduled = d.n]
       IN  Commit(handleMessageTail(s1, d.m, d.n))

\* A mutation of decodeCatch: the exception leaves handleMessage and the rest
\* of the message is not processed.
decodeUncaught(s, m, n) ==
  [s EXCEPT !.dropped = [n |-> n, m |-> m]]

\* The catch around decode and schedule: the error goes to the console and
\* handleMessage goes on with the rest of the message.
decodeCatch(s, m, n) ==
  handleMessageTail([s EXCEPT !.dropped = [n |-> n, m |-> m]], m, n)

\* onmessage delivers a message whose audio chunk is not valid base64: atob
\* throws in base64ToUint8Array, before the await.
MalformedChunk(c, m) ==
  /\ transport[c] = "open"
  /\ ~closed[c]
  /\ nMsgs < MaxMsgs
  /\ m.audio
  /\ LET n  == nMsgs + 1
         s0 == [Cur EXCEPT !.nMsgs = n,
                           !.arrivedOut = @ \o m.outText,
                           !.arrivedIn = @ \o m.inText]
         s1 == handleMessageHead(s0, m)
     IN  IF s1.audioContext # NULL
         THEN Commit(decodeCatch(s1, m, n))
         ELSE Commit(handleMessageTail(s1, m, n))

\* `await decodeAudioData` of a suspended handleMessage rejects: the chunk
\* decoded to no bytes and createBuffer refused a buffer of length 0.
DecodeReject(d) ==
  /\ d \in decoding
  /\ Commit(decodeCatch([Cur EXCEPT !.decoding = @ \ {d}], d.m, d.n))

\* source.onended: a scheduled source finished playing.
SourceEnded ==
  /\ audioSources > 0
  /\ Commit([Cur EXCEPT !.audioSources = @ - 1])

\* The clock of output context c advances by one unit while it is open.
AudioTick(c) ==
  /\ c <= nConnect
  /\ c \notin ctxClosed
  /\ ctxTime[c] < MaxTime
  /\ Commit([Cur EXCEPT !.ctxTime[c] = @ + 1])

\* Date.now() advances.
TickMs == 30000

Tick ==
  /\ now < MaxTicks * TickMs
  /\ Commit([Cur EXCEPT !.now = @ + TickMs])

\* The stats interval fires.
StatsTick ==
  /\ statsInterval
  /\ Commit(updateStats(Cur))

\* ---------------------------------------------------------------- video and text
\* ScreenShare's video has loaded: the first frame is captured when the video
\* has a size, then the onStart prop runs.
handleVideoFrame(s, image) ==
  IF s.status = "CONNECTED" THEN sendVideoFrame(s, image) ELSE s

ShareStart ==
  /\ status # "IDLE"
  /\ ~isScreenSharing
  /\ \E image \in (IF nFrames < MaxShots THEN Frames ELSE {}) \cup {NULL} :
       LET s1 == IF image # NULL
                 THEN handleVideoFrame([Cur EXCEPT !.nFrames = @ + 1], image)
                 ELSE Cur
           s2 == [s1 EXCEPT !.isScreenSharing = TRUE]
       IN  Commit(IF s2.status = "CONNECTED" THEN notifyScreenStart(s2) ELSE s2)

\* ScreenShare's frame interval, which runs while the session is connected,
\* the screen is shared and the video is not paused.
FrameTick ==
  /\ status = "CONNECTED"
  /\ isScreenSharing
  /\ ~isVideoPaused
  /\ nFrames < MaxShots
  /\ \E image \in Frames :
       Commit(handleVideoFrame([Cur EXCEPT !.nFrames = @ + 1], image))

\* The pause button, enabled while connected.
HandleVideoPauseToggle ==
  /\ status = "CONNECTED"
  /\ LET newState == ~isVideoPaused
     IN  Commit(notifyVideoStateChange([Cur EXCEPT !.isVideoPaused = newState], newState))

\* ---------------------------------------------------------------- frame source
\* The onFrame prop: App.handleVideoFrame.
onFrame(s, image) ==
  [handleVideoFrame(s, image)
     EXCEPT !.share.lastPush = s.now,
            !.share.gap = IF s.share.lastPush = UNDEF THEN UNDEF
                          ELSE s.now - s.share.lastPush]

\* A mutation of captureAndSendFrame: no throttle.
captureAndSendFrameUnthrottled(s, image) ==
  IF s.share.video = "none" THEN s
  ELSE LET s1 == [s EXCEPT !.share.lastFrameTime = s.now]
       IN  IF s.share.video = "loaded" THEN onFrame(s1, image) ELSE s1

\* captureAndSendFrame: nothing without a video element or within the
\* throttle; the frame is pushed when the video has a size.
captureAndSendFrame(s, image) ==
  IF s.share.video = "none" THEN s
  ELSE IF s.now - s.share.lastFrameTime < ThrottleMs THEN s
  ELSE LET s1 == [s EXCEPT !.share.lastFrameTime = s.now]
       IN  IF s.share.video = "loaded" THEN onFrame(s1, image) ELSE s1

\* startSharing after getDisplayMedia resolved: isSharing is set and the
\* video element is rendered.
StartSharing ==
  /\ status # "IDLE"
  /\ ~share.isSharing
  /\ Commit([Cur EXCEPT !.share.isSharing = TRUE, !.share.video = "mounted"])

\* onLoadedData -> handleVideoLoad: the video plays and has a size, the first
\* frame is captured, then the onStart prop runs.
HandleVideoLoad ==
  /\ share.video = "mounted"
  /\ \E image \in Frames :
       LET s1 == captureAndSendFrame([Cur EXCEPT !.share.video = "loaded"], image)
           s2 == [s1 EXCEPT !.isScreenSharing = TRUE]
       IN  Commit(IF s2.status = "CONNECTED" THEN notifyScreenStart(s2) ELSE s2)

\* The dependencies of the two frame effects: isActive, isSharing, isPaused
\* and captureAndSendFrame, which changes with the connection state.
frameDeps(s) == <<s.status, s.share.isSharing, s.isVideoPaused>>

\* The frame effects run after a render in which a dependency changed: the
\* interval of the earlier run is cleared; while active, sharing and not
\* paused a new interval is set and a frame is captured at once.
FrameEffects ==
  /\ share.deps # frameDeps(Cur)
  /\ \E image \in Frames :
       LET s1 == [Cur EXCEPT !.share.deps = frameDeps(Cur), !.share.intervalAt = UNDEF]
       IN  IF s1.status = "CONNECTED" /\ s1.share.isSharing /\ ~s1.isVideoPaused
           THEN Commit(captureAndSendFrame(
                         [s1 EXCEPT !.share.intervalAt = s1.now + IntervalMs], image))
           ELSE Commit(s1)

\* The frame interval fires, on time or late.
IntervalFires ==
  /\ share.intervalAt # UNDEF
  /\ now >= share.intervalAt
  /\ \E image \in Frames :
       Commit(captureAndSendFrame([Cur EXCEPT !.share.intervalAt = @ + IntervalMs], image))

\* Date.now() advances by a quarter of a second.
FrameStepMs == 250
MaxClock == 10      \* steps of the frame clock explored

FrameClock ==
  /\ now < MaxClock * FrameStepMs
  /\ Commit([Cur EXCEPT !.now = @ + FrameStepMs])

\* ---------------------------------------------------------------- the stop call chain
MaxStack == 3       \* handleStop frames the call stack holds

\* ScreenShare.stopSharing up to its call of the onStop prop, and the prop up
\* to its call of handleStop: the tracks are stopped, isSharing and the App's
\* flag are cleared.
stopSharing(s) ==
  [s EXCEPT !.share.isSharing = FALSE,
            !.share.video = "none",
            !.share.intervalAt = UNDEF,
            !.isScreenSharing = FALSE,
            !.stopping.stops = @ + 1]

\* A call of handleStop up to its call of ScreenShare.stop(): disconnect()
\* runs; when the stack is full the call throws instead and the error leaves
\* every frame, none of which catches it.
handleStopCall(s, reentrant) ==
  IF s.stopping.depth = MaxStack
  THEN [s EXCEPT !.stopping.pc = "thrown", !.stopping.depth = 0]
  ELSE [disconnect(s, reentrant) EXCEPT !.stopping.pc = "stop",
                                        !.stopping.depth = @ + 1,
                                        !.stopping.disconnects = @ + 1]

\* The "End Session" button, shown while connected.
StopPressed ==
  /\ stopping.pc = "idle"
  /\ status = "CONNECTED"
  /\ \E reentrant \in BOOLEAN :
       Commit(handleStopCall(Cur, reentrant))

\* The shared track ends (the browser's "stop sharing"): onended calls
\* stopSharing, whose onStop prop calls handleStop.
TrackEnded ==
  /\ stopping.pc = "idle"
  /\ share.isSharing
  /\ \E reentrant \in BOOLEAN :
       Commit(handleStopCall(stopSharing(Cur), reentrant))

\* handleStop calls screenShareRef.current.stop(): stopSharing runs and its
\* onStop prop calls handleStop again.
ShareStop ==
  /\ stopping.pc = "stop"
  /\ Commit(handleStopCall(stopSharing(Cur), FALSE))

\* The hint sendTextMessage puts before the text when no frame is cached.
systemMsg(s) == IF s.isVideoStreamActive THEN HintWaiting ELSE HintPaused

\* sendTextMessage from the user transcript up to `await generateContentStream`.
buildRequest(s, text) ==
  LET s1 == onTranscript(s, text, "user", TRUE, UNDEF)
      s2 == recordTokenUsage(s1, ceilDiv(Len(text), 4))
  IN  IF s2.lastFrame # NULL
      THEN [recordTokenUsage(s2, 258) EXCEPT
              !.outbound = [text |-> text, hint |-> HintNone, image |-> s2.lastFrame],
              !.textBuilt = TRUE]
      ELSE [s2 EXCEPT
              !.outbound = [text |-> text, hint |-> systemMsg(s2), image |-> NULL],
              !.textBuilt = TRUE]

\* sendTextMessage of call r from the user transcript to the await on
\* generateContentStream: startTime is taken, the request goes out.
startRequest(s, r, text) ==
  [buildRequest(s, text) EXCEPT !.requests[r].phase = "awaitStream",
                                !.requests[r].startTime = s.now]

\* App.handleSendText: sendTextMessage stops the audio output, awaits the
\* resume of a suspended output context, and builds the request.
HandleSendText(text) ==
  /\ nTexts < MaxTexts
  /\ trim(text) # <<>>
  /\ \E suspended \in (IF audioContext # NULL /\ audioContext \notin ctxClosed
                        THEN BOOLEAN ELSE {FALSE}) :
       LET r  == nTexts + 1
           s1 == stopAudioOutput([Cur EXCEPT !.nTexts = r,
                                             !.requests[r].phase = "resuming"])
       IN  IF suspended
           THEN Commit([s1 EXCEPT !.textPending = Append(@, text)])
           ELSE Commit(startRequest(s1, r, text))

\* `await outputAudioContext.resume()` settles for the oldest waiting call.
TextResume ==
  /\ textPending # <<>>
  /\ LET r == CHOOSE q \in 1..MaxTexts :
                 /\ requests[q].phase = "resuming"
                 /\ \A p \in 1..MaxTexts : requests[p].phase = "resuming" => q <= p
     IN  Commit(startRequest([Cur EXCEPT !.textPending = Tail(@)], r, Head(textPending)))

\* ---------------------------------------------------------------- fallback stream
MaxChunks == 2      \* chunks explored per fallback stream

\* The text of a failure and the error descriptions, one symbol each.
TxtFail == 13
ErrNetwork == 30
ErrBackend == 31
Errors == {ErrNetwork, ErrBackend}

errorText(error) == <<TxtFail, error>>

\* The chunks of a stream: a text part with a sentence end in a short
\* buffer, one with a line break, one with a sentence end in a long buffer
\* and markdown, and a function call with no text.
Chunk(text, calls) == [text |-> text, functionCalls |-> calls]

Chunks ==
  { Chunk(<<CL, DOT>>, <<>>),
    Chunk(<<CH, DOT, NL>>, <<>>),
    Chunk(<<CH, CH, CH, CH, STAR, DOT, SP, CL>>, <<>>),
    Chunk(<<>>, <<FunctionCall(1, ToolAddTask, FALSE)>>) }

\* text.replace(/[*_`]/g, '')
RECURSIVE stripMarkdown(_)
stripMarkdown(t) ==
  IF t = <<>> THEN <<>>
  ELSE (IF Head(t) = STAR THEN <<>> ELSE <<Head(t)>>) \o stripMarkdown(Tail(t))

\* processTTSChunk: the cleaned text, unless empty, is queued in speech
\* synthesis.
processTTSChunk(s, r, text) ==
  LET cleanText == trim(stripMarkdown(text))
      s1 == [s EXCEPT !.requests[r].handed = Append(@, text)]
  IN  IF cleanText = <<>> THEN s1
      ELSE [s1 EXCEPT !.speech = Append(@, [r |-> r, text |-> cleanText]),
                      !.lastSpoken = r]

\* The first index from i on at which buf has no punctuation mark / no
\* whitespace.
RECURSIVE punctEnd(_, _)
punctEnd(buf, i) ==
  IF i <= Len(buf) /\ buf[i] = DOT THEN punctEnd(buf, i + 1) ELSE i

RECURSIVE spaceEnd(_, _)
spaceEnd(buf, i) ==
  IF i <= Len(buf) /\ isSpace(buf[i]) THEN spaceEnd(buf, i + 1) ELSE i

\* textBuffer.match(/([.!?]+)(\s+|$)/): the leftmost run of punctuation that
\* is followed by whitespace or by the end of the buffer, with the whitespace
\* after it; from is 0 when there is no match, to is the last index matched.
sentenceMatch(buf) ==
  LET I == {i \in 1..Len(buf) :
              /\ buf[i] = DOT
              /\ LET j == punctEnd(buf, i)
                 IN  j > Len(buf) \/ isSpace(buf[j])}
  IN  IF I = {} THEN [from |-> 0, to |-> 0]
      ELSE LET i == CHOOSE k \in I : \A l \in I : k <= l
           IN  [from |-> i, to |-> spaceEnd(buf, punctEnd(buf, i)) - 1]

\* The while loop over the complete sentences of the buffer of request r.
RECURSIVE sentenceLoop(_, _)
sentenceLoop(s, r) ==
  LET buf == s.requests[r].textBuffer
      match == sentenceMatch(buf)
  IN  IF match.from = 0 THEN s
      ELSE IF Len(buf) < 8 /\ ~\E k \in match.from..match.to : buf[k] = NL THEN s
      ELSE LET sentence == SubSeq(buf, 1, match.to)
               s1 == [s EXCEPT !.requests[r].textBuffer = SubSeq(buf, match.to + 1, Len(buf)),
                               !.requests[r].nCuts = @ + 1]
           IN  sentenceLoop(IF trim(sentence) # <<>> THEN processTTSChunk(s1, r, sentence)
                            ELSE s1, r)

\* The tool calls of a chunk: executed and logged, nothing is sent back.
RECURSIVE chunkTools(_, _)
chunkTools(s, calls) ==
  IF calls = <<>> THEN s
  ELSE LET fc == Head(calls)
           s1 == IF fc.name = ToolUnknown THEN s
                 ELSE [s EXCEPT !.toolStep.runs = Append(@, [id |-> fc.id, name |-> fc.name])]
       IN  chunkTools(onTranscript(s1, toolText(fc, executeTool(fc)), "system", TRUE, UNDEF),
                      Tail(calls))

\* One pass of the `for await` body for a chunk of request r.
streamChunk(s, r, chunk) ==
  LET s1 == chunkTools([s EXCEPT !.requests[r].nChunks = @ + 1,
                                 !.requests[r].arrived = @ \o chunk.text],
                       chunk.functionCalls)
  IN  IF chunk.text = <<>> THEN s1
      ELSE LET q  == s1.requests[r]
               latency == IF q.latency = UNDEF THEN s1.now - q.startTime ELSE q.latency
               s2 == [s1 EXCEPT !.requests[r].latency = latency,
                                !.requests[r].fullText = @ \o chunk.text,
                                !.requests[r].textBuffer = @ \o chunk.text]
               s3 == onTranscript(s2, s2.requests[r].fullText, "ai", FALSE, latency)
           IN  sentenceLoop(s3, r)

\* A mutation of streamEnd: the rest of the buffer is not spoken.
streamEndNoFlush(s, r) ==
  LET q  == s.requests[r]
      s2 == IF q.fullText # <<>>
            THEN recordTokenUsage(
                   [onTranscript(s, q.fullText, "ai", TRUE, q.latency)
                      EXCEPT !.modelTurns = @ + 1],
                   ceilDiv(Len(q.fullText), 4))
            ELSE s
  IN  [s2 EXCEPT !.requests[r].phase = "resolved"]

\* After the loop: the rest of the buffer is spoken, the text is finalized
\* and counted.
streamEnd(s, r) ==
  LET q  == s.requests[r]
      s1 == IF trim(q.textBuffer) # <<>> THEN processTTSChunk(s, r, q.textBuffer) ELSE s
      s2 == IF q.fullText # <<>>
            THEN recordTokenUsage(
                   [onTranscript(s1, q.fullText, "ai", TRUE, q.latency)
                      EXCEPT !.modelTurns = @ + 1],
                   ceilDiv(Len(q.fullText), 4))
            ELSE s1
  IN  [s2 EXCEPT !.requests[r].phase = "resolved"]

\* A mutation of catchError: the error leaves sendTextMessage.
catchErrorRethrows(s, r, error) ==
  [s EXCEPT !.requests[r].phase = "rejected", !.requests[r].error = error]

\* The catch block of sendTextMessage.
catchError(s, r, error) ==
  [onTranscript(s, errorText(error), "system", TRUE, UNDEF)
     EXCEPT !.requests[r].phase = "resolved", !.requests[r].error = error]

\* generateContentStream of request r resolves with the stream.
StreamOpen(r) ==
  /\ requests[r].phase = "awaitStream"
  /\ Commit([Cur EXCEPT !.requests[r].phase = "streaming"])

\* generateContentStream of request r rejects.
RequestFail(r, error) ==
  /\ requests[r].phase = "awaitStream"
  /\ Commit(catchError(Cur, r, error))

\* The stream of request r delivers a chunk.
StreamChunk(r, chunk) ==
  /\ requests[r].phase = "streaming"
  /\ requests[r].nChunks < MaxChunks
  /\ Commit(streamChunk(Cur, r, chunk))

\* The stream of request r throws.
StreamFail(r, error) ==
  /\ requests[r].phase = "streaming"
  /\ Commit(catchError(Cur, r, error))

\* The stream of request r is exhausted.
StreamEnd(r) ==
  /\ requests[r].phase = "streaming"
  /\ Commit(streamEnd(Cur, r))

\* ---------------------------------------------------------------- capture
\* A mutation of sessionMatches: dispatch without comparing the handles.
sessionMatchesAny(s, c) == TRUE

sessionMatches(s, c) == s.session = c

\* The capture block of an onaudioprocess event: BufferSize samples at the
\* rate of the input context, with their RMS in hundredths.
BufferSize == 2048
Rates == {16000, 48000}
Levels == {10, 30}
Blocks == [n : {BufferSize}, r : Rates, rms100 : Levels]

\* Math.min(1, rms * 5), in hundredths.
inputVolume(rms100) == IF rms100 * 5 < 100 THEN rms100 * 5 ELSE 100

\* A mutation of estimatedTokens: rounded down.
estimatedTokensFloor(n, r) ==
  IF (n * 32) \div r > 1 THEN (n * 32) \div r ELSE 1

\* Math.max(1, Math.ceil(n / r * 32))
estimatedTokens(n, r) ==
  IF ceilDiv(n * 32, r) > 1 THEN ceilDiv(n * 32, r) ELSE 1

\* A mutation of captureGuard: no guard.
captureGuardNever(s) == FALSE

\* `if (!this.session) return`
captureGuard(s) == s.session = NULL

\* onaudioprocess of the processor created by the onopen of connect call c.
onaudioprocess(s, c, b) ==
  IF captureGuard(s)
  THEN [s EXCEPT !.guardDropped = TRUE]
  ELSE LET s1 == [s EXCEPT !.currentInputVolume = inputVolume(b.rms100),
                           !.lastBlock = b]
           s2 == recordTokenUsage(s1, estimatedTokens(b.n, b.r))
       IN  [s2 EXCEPT !.dispatching[c] = @ + 1]

Capture(c) ==
  /\ handler[c] # NULL
  /\ handler[c] \notin ctxClosed
  /\ nCaptures < MaxCaptures
  /\ \E b \in Blocks :
       Commit(onaudioprocess([Cur EXCEPT !.nCaptures = @ + 1], c, b))

\* The sessionPromise.then callback of a captured block.
Dispatch(c) ==
  /\ dispatching[c] > 0
  /\ pc[c] = "done"
  /\ LET s0 == [Cur EXCEPT !.dispatching[c] = @ - 1]
     IN  IF sessionMatches(s0, c)
         THEN Commit([s0 EXCEPT !.sends = @ \cup {<<c, s0.session>>},
                                !.nSent = @ + 1,
                                !.sentAfterClose = @ \/ s0.closeCalled[c]])
         ELSE Commit([s0 EXCEPT !.staleDropped = TRUE])

\* ---------------------------------------------------------------- specifications
\* Connection lifecycle: the App's controls, connect() and its awaits, the
\* transport callbacks, the capture path.
Next ==
  \/ HandleStart
  \/ HandleStop
  \/ Dismiss
  \/ \E c \in Conns : MicGranted(c)
  \/ \E c \in Conns : MicRejected(c)
  \/ \E c \in Conns : TransportOpen(c)
  \/ \E c \in Conns : SessionResolve(c)
  \/ \E c \in Conns : SessionReject(c)
  \/ \E c \in Conns : TransportError(c)
  \/ \E c \in Conns : TransportClose(c)
  \/ \E c \in Conns : Capture(c)
  \/ \E c \in Conns : Dispatch(c)

Spec == Init /\ [][Next]_vars

\* One realtime dialogue: the state after the first connect() has completed
\* (handleStart, microphone granted, onopen, session assigned), then inbound
\* messages and their decodes, interleaved with the end of the session.
InitialLog == <<LogEntry("system", TxtConnected, TRUE, UNDEF)>>

InitDialogue ==
  /\ session = 1
  /\ statsInterval = TRUE
  /\ volumeInterval = TRUE
  /\ audioContext = 1
  /\ processor = 1
  /\ mediaStream = 1
  /\ audioSources = 0
  /\ currentInputTranscription = <<>>
  /\ currentOutputTranscription = <<>>
  /\ responsePending = FALSE
  /\ modelTurns = 0
  /\ status = "CONNECTED"
  /\ nConnect = 1
  /\ pc = [c \in Conns |-> IF c = 1 THEN "done" ELSE "idle"]
  /\ transport = [c \in Conns |-> IF c = 1 THEN "open" ELSE "none"]
  /\ closed = [c \in Conns |-> FALSE]
  /\ closeCalled = [c \in Conns |-> FALSE]
  /\ hung = [c \in Conns |-> FALSE]
  /\ micLive = {1}
  /\ ctxClosed = {}
  /\ handler = [c \in Conns |-> IF c = 1 THEN 1 ELSE NULL]
  /\ decoding = {}
  /\ dispatching = [c \in Conns |-> 0]
  /\ nMsgs = 0
  /\ nErrors = 0
  /\ onDisconnectCount = 0
  /\ onErrorCount = 0
  /\ idleDisconnect = FALSE
  /\ afterDisconnect = FALSE
  /\ seenAtClose = [c \in Conns |-> NULL]
  /\ sentAfterClose = FALSE
  /\ sends = {}
  /\ staleDropped = FALSE
  /\ guardDropped = FALSE
  /\ lastHandled = 0
  /\ outOfOrder = FALSE
  /\ arrivedOut = <<>>
  /\ arrivedIn = <<>>
  /\ lastFinalAi = NoFinal
  /\ lastFinalUser = NoFinal
  /\ now = 0
  /\ tokenHistory = <<>>
  /\ tokensPerMinute = 0
  /\ imagesSent = 0
  /\ currentInputVolume = 0
  /\ nCaptures = 0
  /\ lastUserInteractionTime = 0
  /\ currentTurnLatency = UNDEF
  /\ logs = InitialLog
  /\ lastUpdate = NoUpdate
  /\ nextStartTime = 0
  /\ ctxTime = [c \in Conns |-> 0]
  /\ lastChunk = NoChunk
  /\ stopRan = FALSE
  /\ added = <<>>
  /\ statsRan = FALSE
  /\ lastBlock = NoBlock
  /\ nSent = 0
  /\ lastFrame = NULL
  /\ isVideoStreamActive = TRUE
  /\ isVideoPaused = FALSE
  /\ isScreenSharing = FALSE
  /\ outbound = NoRequest
  /\ textBuilt = FALSE
  /\ textPending = <<>>
  /\ nTexts = 0
  /\ nFrames = 0
  /\ updated = FALSE
  /\ lastScheduled = 0
  /\ interruptedAt = 0
  /\ codec = NoCodec
  /\ toolStep = NoTools
  /\ requests = NoRequests
  /\ speech = <<>>
  /\ lastSpoken = 0
  /\ share = NoShare
  /\ dropped = NoDrop
  /\ stopping = NoStop

NextDialogue ==
  \/ \E m \in Messages : Message(1, m)
  \/ \E n \in 1..MaxMsgs, m \in Messages : DecodeDone([n |-> n, m |-> m])
  \/ SourceEnded
  \/ HandleStop
  \/ TransportClose(1)

SpecDialogue == InitDialogue /\ [][NextDialogue]_vars

\* Successive sessions: a dialogue, its end, and the next connect() with its
\* own dialogue.
SessionMessages ==
  {m \in Messages : ~m.interrupted /\ m.outText \in {<<>>, <<CH>>}}

NextSessions ==
  \/ \E c \in Conns, m \in SessionMessages : Message(c, m)
  \/ \E n \in 1..MaxMsgs, m \in Messages : DecodeDone([n |-> n, m |-> m])
  \/ HandleStop
  \/ HandleStart
  \/ \E c \in Conns : MicGranted(c)
  \/ \E c \in Conns : TransportOpen(c)
  \/ \E c \in Conns : SessionResolve(c)

SpecSessions == InitDialogue /\ [][NextSessions]_vars

\* Playback: audio messages and interruptions with running output clocks,
\* across the end of a session, a transport error and the next connect().
PlaybackMessages ==
  {m \in Messages : m.audio /\ m.outText = <<>> /\ m.inText = <<>> /\ ~m.turnComplete}

NextPlayback ==
  \/ \E c \in Conns, m \in PlaybackMessages : Message(c, m)
  \/ \E n \in 1..MaxMsgs, m \in Messages : DecodeDone([n |-> n, m |-> m])
  \/ SourceEnded
  \/ \E c \in Conns : AudioTick(c)
  \/ HandleStop
  \/ HandleStart
  \/ Dismiss
  \/ \E c \in Conns : TransportError(c)

SpecPlayback == InitDialogue /\ [][NextPlayback]_vars

\* The three callers of stopAudioOutput in one session: an interrupted
\* message, a typed message and disconnect(), with the output clock running.
NextInterrupt ==
  \/ \E m \in PlaybackMessages : Message(1, m)
  \/ \E n \in 1..MaxMsgs, m \in Messages : DecodeDone([n |-> n, m |-> m])
  \/ SourceEnded
  \/ AudioTick(1)
  \/ \E text \in Texts : HandleSendText(text)
  \/ TextResume
  \/ HandleStop

SpecInterrupt == InitDialogue /\ [][NextInterrupt]_vars

\* Usage accounting over time: token events from captured blocks and finished
\* turns, the stats interval, the wall clock, and the end of the session.
UsageMessages ==
  {m \in Messages : ~m.audio /\ ~m.interrupted /\ m.inText = <<>> /\ m.turnComplete}

NextUsage ==
  \/ Tick
  \/ StatsTick
  \/ \E c \in Conns : Capture(c)
  \/ \E m \in UsageMessages : Message(1, m)
  \/ HandleStop

SpecUsage == InitDialogue /\ [][NextUsage]_vars

\* Text fallback and video: frames, pause and resume, screen sharing and text
\* messages, during a session and after its end.
NextText ==
  \/ \E text \in Texts : HandleSendText(text)
  \/ TextResume
  \/ ShareStart
  \/ FrameTick
  \/ HandleVideoPauseToggle
  \/ HandleStop
  \/ TransportClose(1)

SpecText == InitDialogue /\ [][NextText]_vars

\* Latency measurement: input transcription, audio and turn-complete messages
\* of one session with the wall clock running.
LatencyMessages ==
  {m \in Messages : ~m.interrupted /\ m.outText = <<>>}

NextLatency ==
  \/ Tick
  \/ \E m \in LatencyMessages : Message(1, m)
  \/ \E n \in 1..MaxMsgs, m \in Messages : DecodeDone([n |-> n, m |-> m])

SpecLatency == InitDialogue /\ [][NextLatency]_vars

\* The log under any sequence of transcript updates, whichever path (live
\* session or text fallback) emits them, and of the App's own entries.  The
\* service emits system entries only as final ones.
Transcript(text, sender, isFinal, responseTime) ==
  /\ sender = "system" => isFinal
  /\ Len(onTranscript(Cur, text, sender, isFinal, responseTime).logs) <= MaxLog
  /\ Commit(onTranscript(Cur, text, sender, isFinal, responseTime))

AddLog ==
  /\ Len(logs) < MaxLog
  /\ Commit(addLog(Cur, "system", TxtConnected))

NextLog ==
  \/ \E text \in Texts, sender \in Senders, isFinal \in BOOLEAN,
        responseTime \in {UNDEF, 0} :
       Transcript(text, sender, isFinal, responseTime)
  \/ AddLog

SpecLog == Init /\ [][NextLog]_vars

\* The same under the onTranscript of the earlier App.
TranscriptEarlier(text, sender, isFinal, responseTime) ==
  /\ sender = "system" => isFinal
  /\ Len(onTranscriptEarlier(Cur, text, sender, isFinal, responseTime).logs) <= MaxLog
  /\ Commit(onTranscriptEarlier(Cur, text, sender, isFinal, responseTime))

NextLogEarlier ==
  \/ \E text \in Texts, sender \in Senders, isFinal \in BOOLEAN,
        responseTime \in {UNDEF, 0} :
       TranscriptEarlier(text, sender, isFinal, responseTime)
  \/ AddLog

SpecLogEarlier == Init /\ [][NextLogEarlier]_vars

\* ================================================================ claims
\* A transport that is open or being opened, from the client's point of view.
live(c) == transport[c] \in {"opening", "open"} /\ ~closed[c] /\ ~closeCalled[c]

\* C1: a disconnect() made while no session is active fires no onDisconnect,
\* and no step (a disconnect() with the onclose callback re-entering it
\* included) fires onDisconnect more than once.
C1_IdleDisconnectIsSilent ==
  [][/\ onDisconnectCount' <= onDisconnectCount + (IF session # NULL THEN 1 ELSE 0)
     /\ onDisconnectCount' > onDisconnectCount => session' = NULL]_vars

\* A disconnect() fired onDisconnect and another disconnect() ran with no session.
C1_Witness ==
  afterDisconnect /\ idleDisconnect /\ onDisconnectCount >= 1

\* C2: after a disconnect() has returned and before the next connect() call,
\* the session handle is null, no microphone stream is held, both timers are
\* cleared and the Pending Playback Buffer is empty.
C2_ReleasedAfterDisconnect ==
  afterDisconnect =>
    /\ session = NULL
    /\ mediaStream = NULL
    /\ ~statsInterval
    /\ ~volumeInterval
    /\ audioSources = 0

\* C3: when a connect() call fails after its microphone was granted, onError
\* is reported and, when the call has finished, the microphone it was granted
\* is stopped, no stream is held, both timers are cleared and the session
\* handle is null.
C3_FailedConnectReleases ==
  [][\A c \in Conns :
       (pc[c] = "awaitSession" /\ pc'[c] = "failed") =>
         /\ onErrorCount' = onErrorCount + 1
         /\ c \notin micLive'
         /\ mediaStream' = NULL
         /\ ~statsInterval'
         /\ ~volumeInterval'
         /\ session' = NULL]_vars

\* C4: every audio block that is sent goes to the session that is this.session
\* at the moment of the send.
C4_NoStaleDispatch ==
  \A p \in sends : p[1] = p[2]

\* A block was sent, and another was dropped because the session had changed.
C4_Witness ==
  staleDropped /\ sends # {}

\* C5: the post-decode steps of inbound messages run in arrival order.
C5_ArrivalOrder ==
  ~outOfOrder

\* C6: a finalized entry is the concatenation, in arrival order, of the deltas
\* received for its direction since the previous finalization.
C6_FinalIsConcatenation ==
  /\ lastFinalAi.message = lastFinalAi.arrived
  /\ lastFinalUser.message = lastFinalUser.arrived

\* C7: once the transport of the latest connect() has closed and that call
\* has finished or can never finish, the status is IDLE or ERROR.
C7_FailureReachesTerminal ==
  (/\ nConnect >= 1
   /\ closed[nConnect]
   /\ (pc[nConnect] \in {"done", "failed"} \/ hung[nConnect]))
    => status \in {"IDLE", "ERROR"}

\* C8: a transport error event during a session runs the full disconnect.
C8_ErrorRunsDisconnect ==
  [][(nErrors' = nErrors + 1 /\ session # NULL) =>
       /\ onErrorCount' = onErrorCount + 1
       /\ session' = NULL
       /\ mediaStream' = NULL
       /\ ~statsInterval'
       /\ ~volumeInterval'
       /\ audioContext \in ctxClosed']_vars

\* C9: connect() opens no transport and no microphone stream while an earlier
\* one is still open or being opened.
C9_OneLiveSession ==
  [][\A c \in Conns :
       (transport[c] = "none" /\ transport'[c] = "opening") =>
         /\ \A d \in Conns \ {c} : ~live(d)
         /\ micLive = {}]_vars

\* C10: close() is called on a session only after this.session was set to
\* null, nothing is sent to a session on which close() was called, and a
\* capture or close callback of that session that runs afterwards finds
\* this.session null.
C10_NullBeforeClose ==
  [][/\ \A c \in Conns : closeCalled'[c] => (seenAtClose'[c] = NULL /\ session' # c)
     /\ ~sentAfterClose'
     /\ \A c \in Conns :
          closeCalled[c] =>
            /\ (~closed[c] /\ closed'[c]) => session = NULL
            /\ dispatching'[c] <= dispatching[c]]_vars

\* C11: a capture block delivered while this.session is null adds no ledger
\* entry, queues and sends no payload, and leaves the usage stats and the
\* input volume as they were.
C11_IdleCaptureIsSilent ==
  [][(nCaptures' = nCaptures + 1 /\ session = NULL) =>
       /\ tokenHistory' = tokenHistory
       /\ tokensPerMinute' = tokensPerMinute
       /\ imagesSent' = imagesSent
       /\ modelTurns' = modelTurns
       /\ currentInputVolume' = currentInputVolume
       /\ dispatching' = dispatching
       /\ sends' = sends]_vars

\* With no session active a block was dropped by the guard, while the volume
\* measured from a block of an active session is still held.
C11_Witness ==
  guardDropped /\ session = NULL /\ currentInputVolume > 0

\* C12: a connect() call leaves the usage stats at zero, the ledger empty and
\* both transcript accumulators empty.
C12_ConnectResets ==
  [][nConnect' = nConnect + 1 =>
       /\ modelTurns' = 0
       /\ imagesSent' = 0
       /\ tokensPerMinute' = 0
       /\ tokenHistory' = <<>>
       /\ currentInputTranscription' = <<>>
       /\ currentOutputTranscription' = <<>>]_vars

\* C13: when a turn-complete has been processed both accumulators are empty,
\* and the latency value is unset whenever the output accumulator was
\* finalized.
C13_TurnCompleteEmpties ==
  [][modelTurns' = modelTurns + 1 =>
       /\ currentInputTranscription' = <<>>
       /\ currentOutputTranscription' = <<>>
       /\ (lastFinalAi' # lastFinalAi => currentTurnLatency' = UNDEF)]_vars

\* C14: an entry that is final keeps its place, sender, message and final
\* mark through every later update of the log.
C14_FinalEntriesAreFrozen ==
  [][\A i \in 1..Len(logs) :
       logs[i].isFinal =>
         /\ Len(logs') >= i
         /\ logs'[i].sender = logs[i].sender
         /\ logs'[i].message = logs[i].message
         /\ logs'[i].isFinal]_vars

\* A final entry of a sender is followed by a later entry of the same sender
\* that holds another message.
C14_Witness ==
  \E i, j \in 1..Len(logs) :
    /\ i < j
    /\ logs[i].isFinal
    /\ logs[j].sender = logs[i].sender
    /\ logs[j].message # logs[i].message

\* C15: a non-final update that follows a non-final update of the same sender
\* writes the entry the first one wrote and does not lengthen the log.
C15_PartialReplacesPartial ==
  [][(/\ updated /\ updated'
      /\ lastUpdate.sender = lastUpdate'.sender
      /\ ~lastUpdate.isFinal
      /\ ~lastUpdate'.isFinal
      /\ logs' # logs) =>
       /\ Len(logs') = Len(logs)
       /\ lastUpdate'.index = lastUpdate.index]_vars

\* Two non-final updates of one sender were made in a row and left one entry
\* for them, after an entry of another sender.
C15_Witness ==
  /\ Len(logs) = 2
  /\ lastUpdate.index = 1
  /\ ~logs[1].isFinal
  /\ logs[1].message = <<CL>>
  /\ logs[2].sender # logs[1].sender

\* C16: of two chunks scheduled with no stopAudioOutput between them, the
\* later one starts and ends no earlier than the one before.
C16_CursorNonDecreasing ==
  [][(lastChunk # NoChunk /\ lastChunk' # NoChunk) =>
       /\ lastChunk'.start >= lastChunk.start
       /\ lastChunk'.end >= lastChunk.end]_vars

inWindow(q) ==
  LET young(entry) == q - entry.time < 60000
  IN  SelectSeq(added, young)

\* C18: after every step that queried the stats (a token event or a tick of
\* the stats interval), tokensPerMinute is the sum of the counts of the
\* entries less than 60000 ms old.
C18_WindowedSum ==
  statsRan => tokensPerMinute = sumCounts(inWindow(now))

\* A query found an entry exactly one minute old and a younger one, and
\* counted only the younger.
C18_Witness ==
  /\ statsRan
  /\ \E i \in 1..Len(added) : now - added[i].time = 60000
  /\ \E i \in 1..Len(added) : now - added[i].time < 60000
  /\ tokensPerMinute > 0
  /\ Len(tokenHistory) < Len(added)

\* The count max(1, ceil(n / r * 32)) of a block, stated without the division.
isBlockCount(k, b) ==
  /\ k >= 1
  /\ k * b.r >= b.n * 32
  /\ k = 1 \/ (k - 1) * b.r < b.n * 32

\* C19: a capture block handled with an active session adds exactly one
\* ledger entry, with the count of the block, and queues exactly one payload,
\* which is sent when the session is still the active one.
C19_OneEntryOnePayload ==
  [][/\ (nCaptures' = nCaptures + 1 /\ session # NULL) =>
          /\ Len(added') = Len(added) + 1
          /\ isBlockCount(added'[Len(added')].count, lastBlock')
          /\ (lastBlock'.n = 2048 /\ lastBlock'.r = 16000 =>
                added'[Len(added')].count = 5)
          /\ \E c \in Conns :
                dispatching' = [dispatching EXCEPT ![c] = @ + 1]
          /\ nSent' = nSent
      /\ \A c \in Conns :
          (dispatching'[c] = dispatching[c] - 1 /\ session = c) =>
             nSent' = nSent + 1]_vars

\* A block of 2048 samples at 16 kHz was handled with an active session: the
\* ledger got one entry of 5 and the payload was sent.
C19_Witness ==
  /\ nSent = 1
  /\ Len(added) = 1
  /\ added[1].count = 5
  /\ lastBlock.n = 2048
  /\ lastBlock.r = 16000
  /\ \A c \in Conns : dispatching[c] = 0

\* C20: a request built with no cached frame carries no image and the hint
\* for the state of the video: the paused hint when the user has paused it,
\* the waiting hint otherwise; a request built with a cached frame carries
\* that frame and no hint.
C20_HintMatchesVideoState ==
  textBuilt =>
    IF lastFrame # NULL
    THEN outbound.image = lastFrame /\ outbound.hint = HintNone
    ELSE /\ outbound.image = NULL
         /\ outbound.hint = IF isVideoPaused THEN HintPaused ELSE HintWaiting

\* The index of the most recent entry of the sender in the log, or 0.
mostRecent(prev, sender) ==
  LET I == {i \in 1..Len(prev) : prev[i].sender = sender}
  IN  IF I = {} THEN 0 ELSE CHOOSE i \in I : \A j \in I : j <= i

\* C24: a non-final update replaces the most recent entry of its sender when
\* that entry is non-final, wherever it lies in the log, and leaves the other
\* entries alone; otherwise it appends a new entry and changes none.
C24_ReplaceIffRecentIsPartial ==
  [][(updated' /\ ~lastUpdate'.isFinal) =>
       LET sender == lastUpdate'.sender
           i == mostRecent(logs, sender)
       IN  IF i # 0 /\ ~logs[i].isFinal
           THEN /\ Len(logs') = Len(logs)
                /\ lastUpdate'.index = i
                /\ ~logs'[i].isFinal
                /\ \A j \in 1..Len(logs) : j # i => logs'[j] = logs[j]
           ELSE /\ Len(logs') = Len(logs) + 1
                /\ lastUpdate'.index = Len(logs')
                /\ logs'[Len(logs')].sender = sender
                /\ ~logs'[Len(logs')].isFinal
                /\ \A j \in 1..Len(logs) : logs'[j] = logs[j]]_vars


\* C27: an input-transcription message that arrives when the turn already
\* had one leaves the turn-start timestamp where it was and keeps a latency
\* that was already measured.
C27_TurnStartSetOnce ==
  [][(arrivedIn # <<>> /\ Len(arrivedIn') > Len(arrivedIn)) =>
       /\ lastUserInteractionTime' = lastUserInteractionTime
       /\ (currentTurnLatency # UNDEF => currentTurnLatency' = currentTurnLatency)]_vars

\* C25: a chunk that is scheduled comes from a message that arrived after
\* every interrupted message handled so far.
C25_NoChunkAcrossInterrupt ==
  [][lastScheduled' # 0 => lastScheduled' > interruptedAt]_vars

\* C26: once disconnect() has returned and until the next connect(), a message
\* that is delivered, or whose handling resumes from its decode, adds or
\* changes no transcript entry, leaves both accumulators, the turn count and
\* the usage ledger as they were, and schedules no chunk.
C26_OldCallbacksAreNoOps ==
  [][(/\ afterDisconnect
      /\ \/ nMsgs' = nMsgs + 1
         \/ Cardinality(decoding') < Cardinality(decoding)) =>
       /\ logs' = logs
       /\ currentInputTranscription' = currentInputTranscription
       /\ currentOutputTranscription' = currentOutputTranscription
       /\ modelTurns' = modelTurns
       /\ tokenHistory' = tokenHistory
       /\ lastScheduled' = 0]_vars

\* C28: a chunk that is scheduled starts no earlier than the current time of
\* the output context: after the lead when the cursor was in the past,
\* otherwise at the end of the chunk scheduled before it; it never starts
\* before the end of the chunk scheduled before it and not stopped since.
C28_ScheduledBackToBack ==
  [][(lastScheduled' # 0 /\ lastChunk' # NoChunk) =>
       LET currentTime == ctxTime[audioContext]
       IN  /\ lastChunk'.start >= currentTime
           /\ nextStartTime < currentTime => lastChunk'.start = currentTime + Lead
           /\ (nextStartTime >= currentTime /\ lastChunk # NoChunk) =>
                 lastChunk'.start = lastChunk.end
           /\ lastChunk # NoChunk => lastChunk'.start >= lastChunk.end]_vars

\* ---------------------------------------------------------------- tool-call messages
\* Tool-call messages and plain messages of one session, and its end.
NextTools ==
  \/ \E m \in ToolMessages : Message(1, m)
  \/ \E m \in UsageMessages : Message(1, m)
  \/ HandleStop
  \/ TransportClose(1)

SpecTools == InitDialogue /\ [][NextTools]_vars

\* ---------------------------------------------------------------- text fallback
\* Typed messages and their fallback streams, which may fail.
NextFallback ==
  \/ \E text \in Texts : HandleSendText(text)
  \/ TextResume
  \/ \E r \in 1..MaxTexts : StreamOpen(r)
  \/ \E r \in 1..MaxTexts, error \in Errors : RequestFail(r, error)
  \/ \E r \in 1..MaxTexts, chunk \in Chunks : StreamChunk(r, chunk)
  \/ \E r \in 1..MaxTexts, error \in Errors : StreamFail(r, error)
  \/ \E r \in 1..MaxTexts : StreamEnd(r)

SpecFallback == InitDialogue /\ [][NextFallback]_vars

\* Streams that run to completion, with the wall clock running.
StreamChunks == {chunk \in Chunks : Len(chunk.text) <= 2}

NextStream ==
  \/ HandleSendText(<<CH>>)
  \/ \E r \in 1..MaxTexts : StreamOpen(r)
  \/ \E r \in 1..MaxTexts, chunk \in StreamChunks : StreamChunk(r, chunk)
  \/ \E r \in 1..MaxTexts : StreamEnd(r)
  \/ Tick

SpecStream == InitDialogue /\ [][NextStream]_vars

\* ---------------------------------------------------------------- typed and spoken input
\* Typed messages while the transcription of the user's speech arrives.
TypedMessages ==
  {m \in Messages : ~m.audio /\ ~m.interrupted /\ m.outText = <<>>}

NextTyped ==
  \/ \E m \in TypedMessages : Message(1, m)
  \/ \E text \in Texts : HandleSendText(text)
  \/ TextResume

SpecTyped == InitDialogue /\ [][NextTyped]_vars

\* ---------------------------------------------------------------- codec round trip
\* A block of samples is encoded for sending.
Encode(data) ==
  /\ Commit([Cur EXCEPT !.codec = [samples |-> data, payload |-> createPcmBlob(data),
                                   decoded |-> <<>>]])

\* The payload is decoded as an inbound chunk is.
Decode ==
  /\ codec.payload # <<>>
  /\ codec.decoded = <<>>
  /\ Commit([Cur EXCEPT !.codec.decoded = decodeAudioData(base64ToUint8Array(codec.payload))])

NextCodec ==
  \/ \E a \in Samples : Encode(<<a>>)
  \/ Decode

SpecCodec == Init /\ [][NextCodec]_vars

\* C23: a sample in [-1,1] comes back from encoding and decoding within
\* 1/32768 of its value; a sample outside comes back as the extreme value of
\* its own sign.
C23_RoundTripWithinOneStep ==
  \A i \in 1..Len(codec.decoded) :
    LET a == codec.samples[i]
        k == codec.decoded[i]
        e == a - k * SampleRes
    IN  /\ (a >= -SampleDen /\ a <= SampleDen) => (e <= SampleRes /\ -e <= SampleRes)
        /\ a > SampleDen => k = 32767
        /\ a < -SampleDen => k = -32768

\* The handler invocations a list of function calls asks for, in order.
RECURSIVE handlersOf(_)
handlersOf(calls) ==
  IF calls = <<>> THEN <<>>
  ELSE (IF Head(calls).name = ToolUnknown THEN <<>>
        ELSE <<[id |-> Head(calls).id, name |-> Head(calls).name]>>)
       \o handlersOf(Tail(calls))

\* C22: in a step that handles a message with n function calls, the handlers
\* run once each in request order; exactly one tool response is sent, with n
\* results in request order under the ids of their calls, the result of a
\* handler that threw being the error string; the n entries logged just
\* before the sending are finalized system entries naming call and result;
\* and at the time of sending the accumulators and the turn count are those
\* from before the message.
C22_OneBatchedToolResponse ==
  [][toolStep'.calls # <<>> =>
       LET calls == toolStep'.calls
           n == Len(calls)
       IN  /\ toolStep'.runs = handlersOf(calls)
           /\ Len(toolStep'.sent) = 1
           /\ LET r == toolStep'.sent[1]
              IN  /\ Len(r.functionResponses) = n
                  /\ \A i \in 1..n :
                       /\ r.functionResponses[i].id = calls[i].id
                       /\ r.functionResponses[i].name = calls[i].name
                       /\ calls[i].throws => r.functionResponses[i].result = ResError
                  /\ r.logsAt = Len(logs) + n
                  /\ \A i \in 1..n :
                       logs'[Len(logs) + i] =
                         LogEntry("system",
                                  toolText(calls[i], r.functionResponses[i].result),
                                  TRUE, UNDEF)
                  /\ r.outAt = currentOutputTranscription
                  /\ r.inAt = currentInputTranscription
                  /\ r.turnsAt = modelTurns]_vars

\* C21: in a step in which the request or the stream of a sendTextMessage
\* call throws, the call still resolves, the log grows by exactly one entry,
\* a finalized system entry with the description of the error, and the
\* session handle and the connection status stay as they were.
C21_FailureIsLoggedOnce ==
  [][\A r \in 1..MaxTexts :
       (requests[r].error = 0 /\ requests'[r].error # 0) =>
          /\ requests'[r].phase = "resolved"
          /\ Len(logs') = Len(logs) + 1
          /\ SubSeq(logs', 1, Len(logs)) = logs
          /\ logs'[Len(logs')] =
               LogEntry("system", errorText(requests'[r].error), TRUE, UNDEF)
          /\ session' = session
          /\ status' = status]_vars

\* A stream failed after part of the response had arrived, in a connected
\* session; the error entry is the last of the log.
C21_Witness ==
  \E r \in 1..MaxTexts :
    /\ requests[r].error = ErrBackend
    /\ requests[r].fullText # <<>>
    /\ requests[r].phase = "resolved"
    /\ session # NULL
    /\ status = "CONNECTED"
    /\ logs[Len(logs)] = LogEntry("system", errorText(ErrBackend), TRUE, UNDEF)

\* C30: a step in which the stream of a request ends without an exception
\* leaves a finalized ai entry with the concatenation of the text deltas of
\* the request and its first-token latency as the entry written last, adds
\* one to modelTurns and records ceil(length / 4) tokens in the ledger.
C30_CompletedStreamIsFinalized ==
  [][\A r \in 1..MaxTexts :
       (requests[r].phase = "streaming" /\ requests'[r].phase = "resolved"
          /\ requests'[r].error = 0) =>
          /\ updated'
          /\ lastUpdate'.sender = "ai"
          /\ lastUpdate'.isFinal
          /\ logs'[lastUpdate'.index].sender = "ai"
          /\ logs'[lastUpdate'.index].isFinal
          /\ logs'[lastUpdate'.index].message = requests[r].arrived
          /\ logs'[lastUpdate'.index].responseTime = requests[r].latency
          /\ Len(logs') <= Len(logs) + 1
          /\ modelTurns' = modelTurns + 1
          /\ Len(added') = Len(added) + 1
          /\ added'[Len(added')].count = ceilDiv(Len(requests[r].arrived), 4)
          /\ tokenHistory'[Len(tokenHistory')] = added'[Len(added')]]_vars

\* C29: after a step in which sendTextMessage was called no live chunk is
\* pending and no speech is queued, and a sentence handed to speech
\* synthesis belongs to the latest sendTextMessage call.
C29_NewTurnPreemptsAudio ==
  [][/\ nTexts' = nTexts + 1 => (audioSources' = 0 /\ speech' = <<>>)
     /\ lastSpoken' # 0 => lastSpoken' >= nTexts]_vars

\* C31: the step in which sendTextMessage emits the user entry appends one
\* finalized user entry with the typed text and leaves every entry that was
\* in the log as it was.
C31_TypedTextIsAppended ==
  [][textBuilt' =>
       /\ Len(logs') = Len(logs) + 1
       /\ SubSeq(logs', 1, Len(logs)) = logs
       /\ logs'[Len(logs')] = LogEntry("user", outbound'.text, TRUE, UNDEF)]_vars

\* C32: after the step in which the stream of a request fails with part of
\* its text emitted, the log holds no ai entry that is not final and carries
\* the text of that request.
C32_FailedStreamClosesEntry ==
  [][\A r \in 1..MaxTexts :
       (requests[r].error = 0 /\ requests'[r].error # 0
          /\ requests'[r].fullText # <<>>) =>
          ~\E i \in 1..Len(logs') :
             /\ logs'[i].sender = "ai"
             /\ ~logs'[i].isFinal
             /\ logs'[i].message = requests'[r].fullText]_vars

\* C33: the connection status changes only along IDLE -> CONNECTING,
\* CONNECTING -> CONNECTED, CONNECTING -> ERROR, CONNECTED -> ERROR,
\* CONNECTED -> IDLE and ERROR -> IDLE.
StatusSteps ==
  { <<"IDLE", "CONNECTING">>, <<"CONNECTING", "CONNECTED">>, <<"CONNECTING", "ERROR">>,
    <<"CONNECTED", "ERROR">>, <<"CONNECTED", "IDLE">>, <<"ERROR", "IDLE">> }

C33_StatusTransitions ==
  [][status' # status => <<status, status'>> \in StatusSteps]_vars

\* Screen sharing around the opening of a session: the share may be running
\* (or its flag may be left over from an earlier session) when onopen calls
\* onConnect.
NextShare ==
  \/ HandleStart
  \/ \E c \in Conns : MicGranted(c)
  \/ \E c \in Conns : TransportOpen(c)
  \/ \E c \in Conns : SessionResolve(c)
  \/ \E c \in Conns : TransportClose(c)
  \/ ShareStart
  \/ FrameTick
  \/ HandleVideoPauseToggle
  \/ HandleStop

SpecShare == Init /\ [][NextShare]_vars

\* C34: when onopen runs while the screen is being shared, the step sends the
\* screen-share-start turn: the ledger gets the 15 tokens that are recorded
\* with the send.
C34_ScreenStartIsSent ==
  [][\A c \in Conns :
       (transport[c] = "opening" /\ transport'[c] = "open" /\ isScreenSharing) =>
          /\ Len(added') = Len(added) + 1
          /\ added'[Len(added')].count = 15]_vars

\* C35: while the video is paused (after the pause was notified and before
\* the resume is notified) no frame is cached, and a request built in that
\* time carries no image and the paused hint.
C35_NoFrameWhilePaused ==
  isVideoPaused =>
    /\ lastFrame = NULL
    /\ textBuilt => (outbound.image = NULL /\ outbound.hint = HintPaused)

\* C36: in every state tokensPerMinute is the sum of the counts held in the
\* ledger, and a state reached by an update holds no ledger entry that is
\* 60 s old or older.
C36_RateIsLedgerSum ==
  /\ tokensPerMinute = sumCounts(tokenHistory)
  /\ statsRan => \A i \in 1..Len(tokenHistory) : now - tokenHistory[i].time < WindowMs

\* ---------------------------------------------------------------- sentence splitting
\* One fallback stream whose chunks carry every text of up to MaxPiece
\* characters over a letter, a sentence end, a blank and a line break.
MaxPiece == 4

SplitChars == {CH, DOT, SP, NL}

SplitChunks ==
  {Chunk(t, <<>>) : t \in UNION {[1..n -> SplitChars] : n \in 1..MaxPiece}}

\* The one typed message whose stream is explored.
SplitSend ==
  /\ nTexts = 0
  /\ HandleSendText(<<CH>>)

NextSplit ==
  \/ SplitSend
  \/ TextResume
  \/ StreamOpen(1)
  \/ \E chunk \in SplitChunks : StreamChunk(1, chunk)
  \/ StreamEnd(1)

SpecSplit == InitDialogue /\ [][NextSplit]_vars

allSpace(t) == \A i \in 1..Len(t) : isSpace(t[i])

\* full is the pieces in their order, with nothing but whitespace before,
\* between and after them.
RECURSIVE fits(_, _)
fits(full, pieces) ==
  IF pieces = <<>> THEN allSpace(full)
  ELSE LET p == Head(pieces)
       IN  \E k \in 0..(Len(full) - Len(p)) :
             /\ allSpace(SubSeq(full, 1, k))
             /\ SubSeq(full, k + 1, k + Len(p)) = p
             /\ fits(SubSeq(full, k + Len(p) + 1, Len(full)), Tail(pieces))

\* C37: the pieces passed to speech synthesis, followed while the stream runs
\* by the buffer that the final flush will pass, are the accumulated text in
\* its order with only whitespace left out; after the end of the stream the
\* pieces alone are; and the sentence loop has made no more passes than the
\* text has characters.
C37_PiecesPartitionText ==
  \A r \in 1..MaxTexts :
    LET q == requests[r]
    IN  /\ q.phase = "streaming" => fits(q.fullText, Append(q.handed, q.textBuffer))
        /\ (q.phase = "resolved" /\ q.error = 0) => fits(q.fullText, q.handed)
        /\ q.nCuts <= Len(q.fullText)

\* A finished stream of two chunks from which the loop cut a sentence in a
\* long buffer and the flush passed the rest.
C37_Witness ==
  LET q == requests[1]
  IN  /\ q.phase = "resolved"
      /\ q.nChunks = 2
      /\ q.nCuts = 1
      /\ Len(q.fullText) = 8
      /\ Len(q.handed) = 2
      /\ q.handed[2] = q.textBuffer
      /\ speech # <<>>

\* ---------------------------------------------------------------- frame timing
\* The frame source of a connected session: the screen is picked, the video
\* loads, the effects run, the interval fires, the user pauses and resumes,
\* the connection fails, and the clock runs.
NextFrames ==
  \/ StartSharing
  \/ HandleVideoLoad
  \/ FrameEffects
  \/ IntervalFires
  \/ HandleVideoPauseToggle
  \/ TransportError(1)
  \/ FrameClock

SpecFrames == InitDialogue /\ [][NextFrames]_vars

\* C38: a frame pushed through onFrame comes at least 500 ms after the frame
\* pushed before it.
C38_FramesHalfSecondApart ==
  share.gap # UNDEF => share.gap >= ThrottleMs

\* A second frame pushed exactly 500 ms after the first, by the effect that
\* runs on resume while the interval is not yet due.
C38_Witness ==
  /\ share.gap = ThrottleMs
  /\ share.intervalAt = now + IntervalMs
  /\ ~isVideoPaused
  /\ imagesSent >= 2

\* ---------------------------------------------------------------- malformed audio
\* Messages with an audio chunk together with an interruption, with an output
\* delta that completes the turn, with an input delta, and alone; the chunk
\* decodes, fails in atob, or fails in decodeAudioData.
ChunkMessages ==
  { Msg(TRUE, TRUE,  <<>>,   <<>>,   FALSE),
    Msg(TRUE, FALSE, <<CH>>, <<>>,   TRUE),
    Msg(TRUE, FALSE, <<>>,   <<CL>>, FALSE),
    Msg(TRUE, FALSE, <<>>,   <<>>,   FALSE) }

NextMalformed ==
  \/ \E m \in ChunkMessages : Message(1, m)
  \/ \E m \in ChunkMessages : MalformedChunk(1, m)
  \/ \E n \in 1..MaxMsgs, m \in ChunkMessages : DecodeDone([n |-> n, m |-> m])
  \/ \E n \in 1..MaxMsgs, m \in ChunkMessages : DecodeReject([n |-> n, m |-> m])
  \/ SourceEnded

SpecMalformed == InitDialogue /\ [][NextMalformed]_vars

\* C39: the step in which the audio chunk of a message fails to decode
\* schedules nothing, processes the rest of the message (the interruption
\* stops the output, the deltas are appended, the completed turn is counted
\* and its text finalized) and leaves the session connected.
C39_MalformedChunkIsDropped ==
  [][dropped'.n # 0 =>
       LET m == dropped'.m
       IN  /\ lastScheduled' = 0
           /\ IF m.interrupted
              THEN stopRan' /\ audioSources' = 0
              ELSE audioSources' = audioSources /\ nextStartTime' = nextStartTime
           /\ IF m.turnComplete
              THEN /\ modelTurns' = modelTurns + 1
                   /\ trim(currentOutputTranscription \o m.outText) # <<>> =>
                        currentOutputTranscription' = <<>>
              ELSE currentOutputTranscription' = currentOutputTranscription \o m.outText
           /\ m.inText # <<>> /\ ~m.turnComplete =>
                currentInputTranscription' = currentInputTranscription \o m.inText
           /\ session' = session
           /\ status' = status
           /\ transport' = transport
           /\ closeCalled' = closeCalled
           /\ onErrorCount' = onErrorCount]_vars

\* The chunk of a message that completes the turn was dropped while an
\* earlier chunk is still in the Pending Playback Buffer: the turn is counted
\* and the session is up.
C39_Witness ==
  /\ dropped.n # 0
  /\ dropped.m.turnComplete
  /\ modelTurns >= 1
  /\ audioSources > 0
  /\ session = 1
  /\ status = "CONNECTED"

\* ---------------------------------------------------------------- stopping
\* The stop call chain step by step, after typed messages and with or
\* without a shared screen.  The chain is synchronous and runs on.
NextStop ==
  \/ \E text \in Texts : HandleSendText(text)
  \/ TextResume
  \/ StartSharing
  \/ HandleVideoLoad
  \/ StopPressed
  \/ TrackEnded
  \/ ShareStop

SpecStop == InitDialogue /\ [][NextStop]_vars /\ WF_vars(ShareStop)

\* C40: a handleStop that has started comes to its end: the outermost call
\* returns after finitely many disconnect() and ScreenShare.stop() calls.
C40_StoppingTerminates ==
  (stopping.pc = "stop") ~> (stopping.pc = "returned")

====
